---- MODULE Spec2Model ----
(***************************************************************************)
(* Model of the debate/media dataset pipeline: transcript segmentation     *)
(* (text_to_utterances.py), speaker-role resolution                        *)
(* (normalize_utterances.py), Factiva article splitting                    *)
(* (media_parse_factiva.py) and the article body normalizer                *)
(* (media_final_adjustments.py).                                           *)
(*                                                                         *)
(* Text is modelled at character level: a string is a sequence of          *)
(* one-character strings, and every regular expression of the source is    *)
(* translated into an operator over such sequences.                        *)
(***************************************************************************)
EXTENDS Integers, Sequences, FiniteSets, TLC

VARIABLES
    \* --- transcript segmentation (text_to_utterances.py) ---
    fmt,                \* format_type of the file being parsed
    script,             \* the transcript as written: preamble, (label, body) turns, layout details
    text,               \* the file's content
    pos,                \* re.finditer: where the next search starts (1-based)
    lines,              \* parse_title_newline_format: lines
    li,                 \* parse_title_newline_format: index of the next line of the for loop
    current_speaker,    \* parse_title_newline_format: current_speaker
    current_utterance,  \* parse_title_newline_format: current_utterance
    utterances,         \* the utterances list of either parser
    df,                 \* the DataFrame the parser returns
    pc,                 \* where the parser is
    \* --- article splitting (media_parse_factiva.py) ---
    raw,                \* split_factiva_file: raw
    chunks,             \* split_factiva_file: chunks
    blocks,             \* split_factiva_file: blocks
    real,               \* split_factiva_file: real
    fpc,                \* where split_factiva_file is
    \* --- speaker normalization (normalize_utterances.py) ---
    ambiguous_resolution_cache,  \* debate id -> resolved role, NoEntry when absent
    fi,                 \* normalize_all_speakers: index of the file of the for loop
    canonical_map,      \* the dict built for the file: <<name, role>> in insertion order
    nrows,              \* len(df["speaker"]) of the file
    normalized_roles,   \* normalize_all_speakers: normalized_roles
    last,               \* the latest match_role call: its name, the rule that decided, the role returned
    asked,              \* per debate id: how many times match_role started asking (line 74)
    saved,              \* the debate ids whose cleaned file was written, in order
    rpc,                \* where normalize_all_speakers is
    \* --- article normalizer (media_final_adjustments.py) ---
    input_csv,          \* the rows of INPUT_CSV: outlet and body
    articles,           \* main: df
    output_csv,         \* the rows written to OUTPUT_CSV
    npass,              \* which run of the script over the data this is
    npc,                \* where main is
    \* --- dataset merge (merge_cleaned_utterances.py) ---
    metadata,           \* the metadata table (debates_metadata.csv, then lines 14-16)
    cleaned_files,      \* the stems of the cleaned files, sorted
    mi,                 \* index of the file the merge loop is at
    all_rows,           \* the per-debate frames appended so far
    final_df,           \* the concatenated frame written to OUTPUT_FILE
    mpc,                \* where the merge script is
    \* --- speaker-line detection on its own (text_to_utterances.py, is_speaker_line) ---
    probe_line,         \* is_speaker_line: the line it is called with
    probe_result,       \* is_speaker_line: what it returned
    ppc,                \* whether is_speaker_line has returned
    \* --- segmentation batch (text_to_utterances.py, process_utterances) ---
    debate_files,       \* process_utterances: the (format_type, file) pairs of DEBATE_FILES in loop order
    raw_dir,            \* per configured file: what the file system holds for it
    bi,                 \* index of the file the loops are at
    attempted,          \* per configured file: how many times the loop body ran for it
    processed_dir,      \* the indices of the files whose output was written
    log,                \* the logged messages: level and file index
    pbar,               \* the progress bar count
    bpc,                \* where process_utterances is
    \* --- body extraction (media_dataset_cleaning.py, extract_body) ---
    article_chunk,      \* extract_body: the chunk it is called with
    article_body,       \* extract_body: the body it returned
    epc,                \* whether extract_body has returned
    \* --- upstream call (ideology_api_annotation.py, call_openai) ---
    backoff,            \* call_openai: backoff, in tenths of a second
    error,              \* call_openai: the message of the exception caught last
    cpc,                \* where call_openai is
    \* --- article extraction batch (media_parse_factiva.py, main) ---
    dump_files,         \* main: files, each with its name and what reading it gives
    di,                 \* index of the file the loop is at
    rows,               \* main: rows
    counts,             \* main: counts
    out_csv,            \* the rows written to OUT_CSV
    dpc,                \* where main is
    \* --- honorific segmentation (utterances.py, parse_honorific_format) ---
    hon_file,           \* the content of the transcript file
    hon_text,           \* the normalized text
    hon_matches,        \* list(SPEAKER_PATTERN.finditer(text))
    hon_i,              \* the index of the match at hand, from 0
    hon_utterances,     \* the utterances collected
    hon_csv,            \* the rows written to <debate_id>_utterances.csv
    hpc                 \* where parse_honorific_format stands

segVars == <<fmt, script, text, pos, lines, li, current_speaker, current_utterance, utterances, df, pc>>

factVars == <<raw, chunks, blocks, real, fpc>>

roleVars == <<ambiguous_resolution_cache, fi, canonical_map, nrows, normalized_roles,
              last, asked, saved, rpc>>

normVars == <<input_csv, articles, output_csv, npass, npc>>

mergeVars == <<metadata, cleaned_files, mi, all_rows, final_df, mpc>>

probeVars == <<probe_line, probe_result, ppc>>

batchVars == <<debate_files, raw_dir, bi, attempted, processed_dir, log, pbar, bpc>>

extractVars == <<article_chunk, article_body, epc>>

callVars == <<backoff, error, cpc>>

dumpVars == <<dump_files, di, rows, counts, out_csv, dpc>>

honVars == <<hon_file, hon_text, hon_matches, hon_i, hon_utterances, hon_csv, hpc>>

vars == <<segVars, factVars, roleVars, normVars, mergeVars, probeVars, batchVars, extractVars, callVars, dumpVars, honVars>>

\* what each component leaves alone
segOthers == <<factVars, roleVars, normVars, mergeVars, probeVars, batchVars, extractVars, callVars, dumpVars, honVars>>

factOthers == <<segVars, roleVars, normVars, mergeVars, probeVars, batchVars, extractVars, callVars, dumpVars, honVars>>

roleOthers == <<segVars, factVars, normVars, mergeVars, probeVars, batchVars, extractVars, callVars, dumpVars, honVars>>

normOthers == <<segVars, factVars, roleVars, mergeVars, probeVars, batchVars, extractVars, callVars, dumpVars, honVars>>

mergeOthers == <<segVars, factVars, roleVars, normVars, probeVars, batchVars, extractVars, callVars, dumpVars, honVars>>

probeOthers == <<segVars, factVars, roleVars, normVars, mergeVars, batchVars, extractVars, callVars, dumpVars, honVars>>

batchOthers == <<segVars, factVars, roleVars, normVars, mergeVars, probeVars, extractVars, callVars, dumpVars, honVars>>

extractOthers == <<segVars, factVars, roleVars, normVars, mergeVars, probeVars, batchVars, callVars, dumpVars, honVars>>

callOthers == <<segVars, factVars, roleVars, normVars, mergeVars, probeVars, batchVars, extractVars, dumpVars, honVars>>

dumpOthers == <<segVars, factVars, roleVars, normVars, mergeVars, probeVars, batchVars, extractVars, callVars, honVars>>

honOthers == <<segVars, factVars, roleVars, normVars, mergeVars, probeVars, batchVars, extractVars, callVars, dumpVars>>

\* a component that is not run
SegIdle ==
    /\ fmt = "none" /\ script = <<>> /\ text = <<>> /\ pos = 0 /\ lines = <<>> /\ li = 0
    /\ current_speaker = <<>> /\ current_utterance = <<>> /\ utterances = <<>>
    /\ df = <<>> /\ pc = "idle"

FactIdle ==
    /\ raw = <<>> /\ chunks = <<>> /\ blocks = <<>> /\ real = <<>> /\ fpc = "idle"

RoleIdle ==
    /\ ambiguous_resolution_cache = <<>> /\ fi = 0 /\ canonical_map = <<>>
    /\ nrows = 0 /\ normalized_roles = <<>> /\ last = <<>> /\ asked = <<>> /\ saved = <<>>
    /\ rpc = "idle"

NormIdle ==
    /\ input_csv = <<>> /\ articles = <<>> /\ output_csv = <<>> /\ npass = 0 /\ npc = "idle"

MergeIdle ==
    /\ metadata = <<>> /\ cleaned_files = <<>> /\ mi = 0 /\ all_rows = <<>>
    /\ final_df = <<>> /\ mpc = "idle"

ProbeIdle ==
    /\ probe_line = <<>> /\ probe_result = FALSE /\ ppc = "idle"

BatchIdle ==
    /\ debate_files = <<>> /\ raw_dir = <<>> /\ bi = 0 /\ attempted = <<>>
    /\ processed_dir = {} /\ log = <<>> /\ pbar = 0 /\ bpc = "idle"

ExtractIdle ==
    /\ article_chunk = <<>> /\ article_body = <<>> /\ epc = "idle"

CallIdle ==
    /\ backoff = 0 /\ error = <<>> /\ cpc = "idle"

DumpIdle ==
    /\ dump_files = <<>> /\ di = 0 /\ rows = <<>> /\ counts = <<>>
    /\ out_csv = <<>> /\ dpc = "idle"

HonIdle ==
    /\ hon_file = <<>> /\ hon_text = <<>> /\ hon_matches = <<>> /\ hon_i = 0
    /\ hon_utterances = <<>> /\ hon_csv = <<>> /\ hpc = "idle"

----------------------------------------------------------------------------
(* Characters and strings *)

NL == "\n"

CR == "\r"

FF == "\f"

UpperChars == {"A","B","C","D","E","F","G","H","I","J","K","L","M",
               "N","O","P","Q","R","S","T","U","V","W","X","Y","Z"}

LowerChars == {"a","b","c","d","e","f","g","h","i","j","k","l","m",
               "n","o","p","q","r","s","t","u","v","w","x","y","z"}

DigitChars == {"0","1","2","3","4","5","6","7","8","9"}

\* \s of the re module, over the characters the model uses
IsSpace(c) == c \in {" ", NL, CR, FF}

\* s[a..b-1] within bounds; empty when a >= b
Sub(s, a, b) == SubSeq(s, a, b - 1)

\* first index >= i of s that is not whitespace, Len(s)+1 when there is none
RECURSIVE SkipSpace(_, _)
SkipSpace(s, i) ==
    IF i > Len(s) THEN i
    ELSE IF IsSpace(s[i]) THEN SkipSpace(s, i + 1) ELSE i

\* last index <= j of s that is not whitespace, 0 when there is none
RECURSIVE SkipSpaceBack(_, _)
SkipSpaceBack(s, j) ==
    IF j < 1 THEN 0
    ELSE IF IsSpace(s[j]) THEN SkipSpaceBack(s, j - 1) ELSE j

\* str.strip()
Strip(s) ==
    LET a == SkipSpace(s, 1)
        b == SkipSpaceBack(s, Len(s))
    IN IF a > b THEN <<>> ELSE SubSeq(s, a, b)

\* str.rstrip()
RStrip(s) == SubSeq(s, 1, SkipSpaceBack(s, Len(s)))

\* str.rstrip('.')
RECURSIVE RStripDots(_)
RStripDots(s) ==
    IF s # <<>> /\ s[Len(s)] = "." THEN RStripDots(SubSeq(s, 1, Len(s) - 1)) ELSE s

\* str.replace("\n", " ")
ReplaceNL(s) == [i \in 1..Len(s) |-> IF s[i] = NL THEN " " ELSE s[i]]

\* s.startswith(p) at offset i: p occurs in s at index i
OccursAt(s, p, i) ==
    /\ i >= 1
    /\ i + Len(p) - 1 <= Len(s)
    /\ \A k \in 1..Len(p) : s[i + k - 1] = p[k]

StartsWith(s, p) == OccursAt(s, p, 1)

EndsWith(s, p) == OccursAt(s, p, Len(s) - Len(p) + 1)

\* p in s
Contains(s, p) == \E i \in 1..(Len(s) + 1) : OccursAt(s, p, i)

\* sep.join(parts)
RECURSIVE Join(_, _)
Join(parts, sep) ==
    IF parts = <<>> THEN <<>>
    ELSE IF Len(parts) = 1 THEN parts[1]
    ELSE parts[1] \o sep \o Join(Tail(parts), sep)

\* str.splitlines() from index a on: the lines between line breaks; a final break
\* opens no line (a "\r\n" pair does not occur in the texts that are split)
RECURSIVE SplitLinesFrom(_, _)
SplitLinesFrom(s, a) ==
    LET breaks == { b \in a..Len(s) : s[b] \in {NL, CR, FF} }
        first == CHOOSE b \in breaks : \A c \in breaks : b <= c
    IN IF a > Len(s) THEN <<>>
       ELSE IF breaks = {} THEN <<Sub(s, a, Len(s) + 1)>>
       ELSE <<Sub(s, a, first)>> \o SplitLinesFrom(s, first + 1)

SplitLines(s) == SplitLinesFrom(s, 1)

----------------------------------------------------------------------------
(* text_to_utterances.py: the caps patterns *)

\* [A-Z ]
IsCapsOrSpace(c) == c \in UpperChars \/ c = " "

\* end (exclusive) of the longest run of [A-Z ] that starts at i
RECURSIVE CapsRunEnd(_, _)
CapsRunEnd(s, i) ==
    IF i <= Len(s) /\ IsCapsOrSpace(s[i]) THEN CapsRunEnd(s, i + 1) ELSE i

\* [A-Z ]{2,}: at i. The run is greedy and ':' is outside the class, so only the
\* longest run can be followed by the colon. The index of the colon, or 0.
LabelAt(s, i) ==
    LET e == CapsRunEnd(s, i)
    IN IF e - i >= 2 /\ e <= Len(s) /\ s[e] = ":" THEN e ELSE 0

\* (?=\n[A-Z ]{2,}:|\Z) at r
SpanEndsAt(s, r) ==
    \/ r = Len(s) + 1
    \/ r <= Len(s) /\ s[r] = NL /\ LabelAt(s, r + 1) # 0

\* (.*?) with re.DOTALL followed by the lookahead: the first r >= i the
\* lookahead accepts (\Z accepts the end of the text, so there is one)
RECURSIVE LazySpanEnd(_, _)
LazySpanEnd(s, i) == IF SpanEndsAt(s, i) THEN i ELSE LazySpanEnd(s, i + 1)

NoMatch == [found |-> FALSE]

\* PatternMatchAt with all_caps_inline's \s? written \s: a space is required
PatternMatchAtSpaceRequired(s, f, p) ==
    LET q == IF p <= Len(s) /\ s[p] = NL THEN p + 1 ELSE p
        colon == LabelAt(s, q)
        c == colon + 1
        b == IF f = "all_caps_inline"
             THEN (IF c <= Len(s) /\ IsSpace(s[c]) THEN c + 1 ELSE 0)
             ELSE (IF c <= Len(s) /\ s[c] = NL THEN c + 1 ELSE 0)
    IN IF colon = 0 \/ b = 0 THEN NoMatch
       ELSE LET r == LazySpanEnd(s, b)
            IN [found |-> TRUE, start |-> p, end |-> r,
                group1 |-> Sub(s, q, colon), group2 |-> Sub(s, b, r)]

\* The match of PATTERNS[f] that starts exactly at p, or NoMatch.
\*   \n?  is greedy; without the newline the label cannot start on it
\*   all_caps_inline:  \s? takes one whitespace character when there is one
\*   all_caps_newline: \n is required after the colon
PatternMatchAt(s, f, p) ==
    LET q == IF p <= Len(s) /\ s[p] = NL THEN p + 1 ELSE p
        colon == LabelAt(s, q)
        c == colon + 1
        b == IF f = "all_caps_inline"
             THEN (IF c <= Len(s) /\ IsSpace(s[c]) THEN c + 1 ELSE c)
             ELSE (IF c <= Len(s) /\ s[c] = NL THEN c + 1 ELSE 0)
    IN IF colon = 0 \/ b = 0 THEN NoMatch
       ELSE LET r == LazySpanEnd(s, b)
            IN [found |-> TRUE, start |-> p, end |-> r,
                group1 |-> Sub(s, q, colon), group2 |-> Sub(s, b, r)]

\* re.finditer's next match: the leftmost start >= p that matches
RECURSIVE NextMatch(_, _, _)
NextMatch(s, f, p) ==
    IF p > Len(s) THEN NoMatch
    ELSE LET m == PatternMatchAt(s, f, p)
         IN IF m.found THEN m ELSE NextMatch(s, f, p + 1)

----------------------------------------------------------------------------
(* text_to_utterances.py: title speaker detection *)

MaxSpeakerLineLen == 30

SpeakerPrefixes ==
    { <<"M","r",".">>, <<"M","s",".">>, <<"M","r","s",".">>,
      <<"P","r","e","s","i","d","e","n","t">>,
      <<"T","h","e"," ","P","r","e","s","i","d","e","n","t">>,
      <<"G","o","v","e","r","n","o","r">>, <<"G","o","v",".">>,
      <<"S","e","n","a","t","o","r">>, <<"S","e","n",".">>,
      <<"Q","u","e","s","t","i","o","n">>, <<"Q">>,
      <<"M","o","d","e","r","a","t","o","r">> }

\* (?:\s+[A-Z][a-z]+)?\.$  applied to what follows the prefix
SpeakerSuffixOK(r) ==
    \/ r = <<".">>
    \/ \E k \in 1..Len(r) :
          /\ \A j \in 1..k : IsSpace(r[j])
          /\ k + 3 <= Len(r)
          /\ r[k + 1] \in UpperChars
          /\ \A j \in (k + 2)..(Len(r) - 1) : r[j] \in LowerChars
          /\ r[Len(r)] = "."

is_speaker_line(line) ==
    LET s == Strip(line)
    IN /\ Len(s) <= MaxSpeakerLineLen
       /\ EndsWith(s, <<".">>)
       /\ \E p \in SpeakerPrefixes :
             StartsWith(s, p) /\ SpeakerSuffixOK(Sub(s, Len(p) + 1, Len(s) + 1))

----------------------------------------------------------------------------
(* The transcripts the segmentation is run on *)

MaxTurns == 2

Formats == {"all_caps_inline", "all_caps_newline", "title_newline"}

CapsFormats == {"all_caps_inline", "all_caps_newline"}

CapsLabels == { <<"A","B">>, <<"C"," ","D">> }

TitleLabels == { <<"Q",".">>, <<"M","r","."," ","A","b",".">> }

LabelsOf(f) == IF f \in CapsFormats THEN CapsLabels ELSE TitleLabels

\* the text lines a turn's body is made of
LineX == <<"x">>
LineY == <<"y">>
LineBlank == <<" ">>
LineMid == <<"x"," ","A",":">>
LineCaps == <<"A","B",":">>
LineP == <<"p">>

Bodies == { <<>>, <<LineBlank>>, <<LineX>>, <<LineX, LineY>>, <<LineMid>>, <<LineCaps>> }

Preambles == { <<>>, <<LineP>> }

Turns == UNION { [1..n -> [label : CapsLabels \cup TitleLabels, body : Bodies]] : n \in 0..MaxTurns }

\* the lines of a transcript written in layout f
TurnLines(f, t, sep) ==
    IF f = "all_caps_inline"
    THEN (IF t.body = <<>> THEN << t.label \o <<":">> \o sep >>
          ELSE << t.label \o <<":">> \o sep \o t.body[1] >> \o Tail(t.body))
    ELSE IF f = "all_caps_newline" THEN << t.label \o <<":">> >> \o t.body
    ELSE << t.label >> \o t.body

RECURSIVE AllTurnLines(_, _, _)
AllTurnLines(f, ts, sep) ==
    IF ts = <<>> THEN <<>>
    ELSE TurnLines(f, ts[1], sep) \o AllTurnLines(f, Tail(ts), sep)

Render(f, sc) ==
    LET ls == sc.preamble \o AllTurnLines(f, sc.turns, sc.sep)
    IN Join(ls, <<NL>>) \o (IF sc.trailing /\ ls # <<>> THEN <<NL>> ELSE <<>>)

Scripts(f) ==
    { sc \in [preamble : Preambles, turns : Turns,
              sep : IF f = "all_caps_inline" THEN {<<>>, <<" ">>} ELSE {<<>>},
              trailing : BOOLEAN] :
        \A i \in 1..Len(sc.turns) : sc.turns[i].label \in LabelsOf(f) }

----------------------------------------------------------------------------
(* text_to_utterances.py: the parsers, one step of their loops at a time *)

\* current_speaker = None; a stripped speaker line is never empty, so the empty
\* string stands for None (both are falsy, and the code only tests truthiness)
None == <<>>

Truthy(x) == x # <<>>

SegStart ==
    /\ fmt \in Formats
    /\ script \in Scripts(fmt)
    /\ text = Render(fmt, script)
    /\ pos = 0 /\ lines = <<>> /\ li = 0
    /\ current_speaker = None /\ current_utterance = <<>> /\ utterances = <<>>
    /\ df = <<>> /\ pc = "start"

SegInit == SegStart /\ FactIdle /\ RoleIdle /\ NormIdle /\ MergeIdle /\ ProbeIdle /\ BatchIdle /\ ExtractIdle /\ CallIdle /\ DumpIdle /\ HonIdle

\* f.read() / f.read().splitlines(), and the parser's initial assignments
ReadFile ==
    /\ pc = "start"
    /\ pc' = "loop"
    /\ IF fmt \in CapsFormats
       THEN pos' = 1 /\ lines' = <<>> /\ li' = 0
       ELSE pos' = 0 /\ lines' = SplitLines(text) /\ li' = 1
    /\ utterances' = <<>> /\ current_speaker' = None /\ current_utterance' = <<>>
    /\ UNCHANGED <<fmt, script, text, df>>
    /\ UNCHANGED segOthers

\* RegexUtterance numbering from enumerate's i instead of i+1
RegexUtteranceZeroBased(m, i) ==
    [utterance_id |-> i,
     speaker |-> Strip(m.group1),
     text |-> ReplaceNL(Strip(m.group2))]

\* the dict parse_regex_format appends for match m, the i-th (0-based) of finditer
RegexUtterance(m, i) ==
    [utterance_id |-> i + 1,
     speaker |-> Strip(m.group1),
     text |-> ReplaceNL(Strip(m.group2))]

\* parse_regex_format: one iteration of the for loop over re.finditer
RegexMatch ==
    /\ pc = "loop" /\ fmt \in CapsFormats
    /\ LET m == NextMatch(text, fmt, pos)
       IN /\ m.found
          /\ utterances' = Append(utterances, RegexUtterance(m, Len(utterances)))
          /\ pos' = m.end
    /\ UNCHANGED <<fmt, script, text, lines, li, current_speaker, current_utterance, df, pc>>
    /\ UNCHANGED segOthers

\* parse_regex_format: finditer is exhausted; return pd.DataFrame(utterances)
RegexReturn ==
    /\ pc = "loop" /\ fmt \in CapsFormats
    /\ ~NextMatch(text, fmt, pos).found
    /\ df' = utterances
    /\ pc' = "done"
    /\ UNCHANGED <<fmt, script, text, pos, lines, li, current_speaker, current_utterance, utterances>>
    /\ UNCHANGED segOthers

\* the dict parse_title_newline_format appends
TitleUtterance(speaker, utt) ==
    [speaker |-> RStripDots(speaker), text |-> Strip(Join(utt, <<" ">>))]

\* parse_title_newline_format: one iteration of `for line in lines`
TitleLine ==
    /\ pc = "loop" /\ fmt = "title_newline" /\ li <= Len(lines)
    /\ LET line == lines[li]
       IN IF is_speaker_line(line)
          THEN /\ IF Truthy(current_speaker) /\ current_utterance # <<>>
                  THEN /\ utterances' = Append(utterances, TitleUtterance(current_speaker, current_utterance))
                       /\ current_utterance' = <<>>
                  ELSE UNCHANGED <<utterances, current_utterance>>
               /\ current_speaker' = Strip(line)
          ELSE /\ current_utterance' = Append(current_utterance, Strip(line))
               /\ UNCHANGED <<utterances, current_speaker>>
    /\ li' = li + 1
    /\ UNCHANGED <<fmt, script, text, pos, lines, df, pc>>
    /\ UNCHANGED segOthers

\* df.insert(0, "utterance_id", range(1, len(df) + 1))
WithIds(us) == [i \in 1..Len(us) |->
                   [utterance_id |-> i, speaker |-> us[i].speaker, text |-> us[i].text]]

\* parse_title_newline_format: after the loop, the final utterance and the ids
TitleReturn ==
    /\ pc = "loop" /\ fmt = "title_newline" /\ li > Len(lines)
    /\ LET final == IF Truthy(current_speaker) /\ current_utterance # <<>>
                    THEN Append(utterances, TitleUtterance(current_speaker, current_utterance))
                    ELSE utterances
       IN /\ utterances' = final
          /\ df' = WithIds(final)
    /\ pc' = "done"
    /\ UNCHANGED <<fmt, script, text, pos, lines, li, current_speaker, current_utterance>>
    /\ UNCHANGED segOthers

SegNext == ReadFile \/ RegexMatch \/ RegexReturn \/ TitleLine \/ TitleReturn

SegSpec == SegInit /\ [][SegNext]_vars

\* parse_regex_format as a whole: the utterances of all matches from p on
RECURSIVE RegexUtterancesFrom(_, _, _, _)
RegexUtterancesFrom(s, f, p, acc) ==
    LET m == NextMatch(s, f, p)
    IN IF m.found THEN RegexUtterancesFrom(s, f, m.end, Append(acc, RegexUtterance(m, Len(acc))))
       ELSE acc

parse_regex_format(s, f) == RegexUtterancesFrom(s, f, 1, <<>>)

----------------------------------------------------------------------------
(* Claims about the segmentation *)

\* the (speaker, text) pairs of a list of utterances
SpeakerTextPairs(us) == [i \in 1..Len(us) |-> <<us[i].speaker, us[i].text>>]

\* a line that would itself open a turn in layout f
OpensTurn(f, line) ==
    IF f \in CapsFormats THEN LabelAt(line, 1) # 0 ELSE is_speaker_line(line)

\* a well-formed speaker transition: a label followed by a body of its own, with
\* some text in it and no line that is itself a label
WellFormedTurn(f, t) ==
    /\ \E k \in 1..Len(t.body) : Strip(t.body[k]) # <<>>
    /\ \A k \in 1..Len(t.body) : ~OpensTurn(f, t.body[k])

WellFormedScript ==
    /\ pc # "idle"
    /\ \A i \in 1..Len(script.turns) : WellFormedTurn(fmt, script.turns[i])

\* the label as the parser is to store it
StoredLabel(f, label) ==
    IF f \in CapsFormats THEN Strip(label) ELSE SubSeq(label, 1, Len(label) - 1)

\* C1: in each of the three formats a transcript of N well-formed speaker
\* transitions yields exactly N utterances, in the order of the source, with
\* sequence ids 1..N.
\* The ids of the list under construction are 1..n at every step of finditer.
C1_WellFormedYieldsN ==
    /\ (pc = "done" /\ WellFormedScript) =>
          /\ Len(df) = Len(script.turns)
          /\ \A i \in 1..Len(df) :
                /\ df[i].utterance_id = i
                /\ df[i].speaker = StoredLabel(fmt, script.turns[i].label)
    /\ (pc \in {"loop", "done"} /\ fmt \in CapsFormats) =>
          \A i \in 1..Len(utterances) : utterances[i].utterance_id = i

C1_Witness ==
    /\ pc = "done" /\ WellFormedScript
    /\ Len(script.turns) >= 2 /\ Len(df) = Len(script.turns)
    /\ script.turns[1].body = <<LineX, LineY>>
    /\ fmt = "all_caps_inline"

\* C2: no utterance is emitted with an empty body text, in any format.
C2_NoEmptyText ==
    pc = "done" => \A i \in 1..Len(df) : df[i].text # <<>>

\* C3: in title-newline segmentation the lines before the first speaker line
\* are discarded: their text is in the body of no emitted utterance.
C3_PreambleDiscarded ==
    (pc = "done" /\ fmt = "title_newline") =>
        \A i \in 1..Len(df) : \A k \in 1..Len(script.preamble) :
            ~Contains(df[i].text, Strip(script.preamble[k]))

\* every turn's text is one non-empty line
SingleLineTurns ==
    /\ pc # "idle"
    /\ \A i \in 1..Len(script.turns) :
          Len(script.turns[i].body) = 1 /\ script.turns[i].body[1] # <<>>

\* C10: the same (all-caps label, non-empty single-line text) pairs written in
\* inline layout and parsed with the inline pattern give the same (speaker,
\* text) pairs as written in newline layout and parsed with the newline pattern.
C10_InlineEqualsNewline ==
    (pc = "done" /\ fmt = "all_caps_inline" /\ SingleLineTurns) =>
        SpeakerTextPairs(df) =
            SpeakerTextPairs(parse_regex_format(
                Render("all_caps_newline", [script EXCEPT !.sep = <<>>]), "all_caps_newline"))

C10_Witness ==
    /\ pc = "done" /\ fmt = "all_caps_inline" /\ SingleLineTurns
    /\ Len(script.turns) >= 2 /\ Len(df) = Len(script.turns)
    /\ script.sep = <<>>
    /\ \E i \in 1..Len(script.turns) : script.turns[i].body = <<LineCaps>>

\* the indices of the lines after speaker line i up to the next speaker line
LinesAfterSpeaker(i) ==
    { j \in (i + 1)..Len(lines) : \A k \in (i + 1)..j : ~is_speaker_line(lines[k]) }

\* the lines at the indices of S, stripped, in source order
StrippedLinesAt(S) ==
    LET marked == [j \in 1..Len(lines) |-> IF j \in S THEN <<Strip(lines[j])>> ELSE <<>>]
    IN [k \in 1..Cardinality(S) |-> SelectSeq(marked, LAMBDA m : m # <<>>)[k][1]]

\* C11: in title-newline segmentation each emitted utterance's speaker is a
\* recognized speaker line without its trailing period, and its body is exactly
\* the non-speaker lines between that speaker line and the next one (or the end
\* of the file), stripped and joined with spaces in source order.
C11_BodyBetweenSpeakerLines ==
    (pc = "done" /\ fmt = "title_newline") =>
        \A u \in 1..Len(df) :
            \E i \in 1..Len(lines) :
                /\ is_speaker_line(lines[i])
                /\ df[u].speaker = SubSeq(Strip(lines[i]), 1, Len(Strip(lines[i])) - 1)
                /\ df[u].text = Strip(Join(StrippedLinesAt(LinesAfterSpeaker(i)), <<" ">>))

----------------------------------------------------------------------------
(* media_parse_factiva.py *)

\* text.replace("\r\n", "\n").replace("\r", "\n").replace("\x0c", "\n")
RECURSIVE ReplaceBreaksFrom(_, _)
ReplaceBreaksFrom(s, i) ==
    IF i > Len(s) THEN <<>>
    ELSE IF s[i] = CR /\ i < Len(s) /\ s[i + 1] = NL THEN <<NL>> \o ReplaceBreaksFrom(s, i + 2)
    ELSE IF s[i] \in {CR, FF} THEN <<NL>> \o ReplaceBreaksFrom(s, i + 1)
    ELSE <<s[i]>> \o ReplaceBreaksFrom(s, i + 1)

\* end (exclusive) of the run of newlines that starts at i
RECURSIVE NewlineRunEnd(_, _)
NewlineRunEnd(s, i) ==
    IF i <= Len(s) /\ s[i] = NL THEN NewlineRunEnd(s, i + 1) ELSE i

\* re.sub(r"\n{3,}", "\n\n", t)
RECURSIVE CollapseNewlinesFrom(_, _)
CollapseNewlinesFrom(s, i) ==
    IF i > Len(s) THEN <<>>
    ELSE IF s[i] = NL
         THEN LET e == NewlineRunEnd(s, i)
              IN (IF e - i >= 3 THEN <<NL, NL>> ELSE Sub(s, i, e)) \o CollapseNewlinesFrom(s, e)
         ELSE <<s[i]>> \o CollapseNewlinesFrom(s, i + 1)

clean_block(t) == Strip(CollapseNewlinesFrom(ReplaceBreaksFrom(t, 1), 1))

\* every character of s[a..b-1] is whitespace
AllSpace(s, a, b) == \A k \in a..(b - 1) : IsSpace(s[k])

\* (?m)^  and  (?m)$
AtLineStart(s, i) == i = 1 \/ (i - 1 <= Len(s) /\ s[i - 1] = NL)

AtLineEnd(s, k) == k = Len(s) + 1 \/ (k <= Len(s) /\ s[k] = NL)

\* (?m)^\s*TAG\s*$ matches at position i (\s* may run over line breaks)
TagLineMatchAt(s, tag, i) ==
    /\ AtLineStart(s, i)
    /\ \E j \in i..(Len(s) + 1) :
          /\ AllSpace(s, i, j)
          /\ OccursAt(s, tag, j)
          /\ \E k \in (j + Len(tag))..(Len(s) + 1) :
                AllSpace(s, j + Len(tag), k) /\ AtLineEnd(s, k)

\* re.search(r'(?m)^\s*TAG\s*$', block) is not None
TagLineSearch(s, tag) == \E i \in 1..(Len(s) + 1) : TagLineMatchAt(s, tag, i)

TagHD == <<"H","D">>
TagPD == <<"P","D">>
TagSN == <<"S","N">>
TagLP == <<"L","P">>

\* is_real_article with the lead-paragraph test left out
is_real_article_NoLP(block) ==
    LET has_pd == TagLineSearch(block, TagPD)
        has_sn == TagLineSearch(block, TagSN)
    IN has_pd /\ has_sn

is_real_article(block) ==
    LET has_pd == TagLineSearch(block, TagPD)
        has_sn == TagLineSearch(block, TagSN)
        has_lp == TagLineSearch(block, TagLP)
    IN has_pd /\ has_sn /\ has_lp

\* HD_SPLIT.split(raw): the pieces between the positions where the lookahead
\* (?=^\s*HD\s*$) holds; a match at the very start leaves an empty first piece
RECURSIVE SplitAtFrom(_, _, _)
SplitAtFrom(s, a, i) ==
    IF i > Len(s) THEN <<Sub(s, a, Len(s) + 1)>>
    ELSE IF TagLineMatchAt(s, TagHD, i)
         THEN <<Sub(s, a, i)>> \o SplitAtFrom(s, i, i + 1)
         ELSE SplitAtFrom(s, a, i + 1)

HD_SPLIT_split(s) == SplitAtFrom(s, 1, 1)

\* the first chunk taken for an article whatever its first line
FirstLineIsHDUntested(chunk) == TRUE

\* re.match(r'(?m)^\s*HD\s*$', first line of the chunk, or "")
FirstLineIsHD(chunk) ==
    LET ls == SplitLines(chunk)
        first == IF ls # <<>> THEN ls[1] ELSE <<>>
    IN TagLineMatchAt(first, TagHD, 1)

\* [f(x) for x in xs if keep(x)]
RECURSIVE NonBlankCleaned(_)
NonBlankCleaned(cs) ==
    IF cs = <<>> THEN <<>>
    ELSE (IF Strip(cs[1]) # <<>> THEN <<clean_block(cs[1])>> ELSE <<>>) \o NonBlankCleaned(Tail(cs))

RECURSIVE RealArticles(_)
RealArticles(bs) ==
    IF bs = <<>> THEN <<>>
    ELSE (IF is_real_article(bs[1]) THEN <<bs[1]>> ELSE <<>>) \o RealArticles(Tail(bs))

\* The dump files split_factiva_file is run on: lines joined by newlines
MaxFileLines == 5

FileLineKinds ==
    { TagHD, <<" ","P","D"," ">>, TagSN, TagLP, <<"P","D","x">>, <<FF>> }

FactivaFiles ==
    UNION { { Join(ls, <<NL>>) : ls \in [1..n -> FileLineKinds] } : n \in 0..MaxFileLines }

FactStart ==
    /\ raw \in FactivaFiles
    /\ chunks = <<>> /\ blocks = <<>> /\ real = <<>>
    /\ fpc = "read"

FactInit == FactStart /\ SegIdle /\ RoleIdle /\ NormIdle /\ MergeIdle /\ ProbeIdle /\ BatchIdle /\ ExtractIdle /\ CallIdle /\ DumpIdle /\ HonIdle

\* raw = clean_block(read_text(path))
CleanRaw ==
    /\ fpc = "read"
    /\ raw' = clean_block(raw)
    /\ fpc' = "split"
    /\ UNCHANGED <<chunks, blocks, real>>
    /\ UNCHANGED factOthers

\* chunks = HD_SPLIT.split(raw), and the preamble before the first HD dropped
SplitChunks ==
    /\ fpc = "split"
    /\ LET cs == HD_SPLIT_split(raw)
       IN chunks' = IF cs # <<>> /\ ~FirstLineIsHD(cs[1]) THEN Tail(cs) ELSE cs
    /\ fpc' = "blocks"
    /\ UNCHANGED <<raw, blocks, real>>
    /\ UNCHANGED factOthers

\* blocks = [clean_block(c) for c in chunks if c.strip()]
CleanChunks ==
    /\ fpc = "blocks"
    /\ blocks' = NonBlankCleaned(chunks)
    /\ fpc' = "filter"
    /\ UNCHANGED <<raw, chunks, real>>
    /\ UNCHANGED factOthers

\* real = [b for b in blocks if is_real_article(b)]; return real
FilterReal ==
    /\ fpc = "filter"
    /\ real' = RealArticles(blocks)
    /\ fpc' = "done"
    /\ UNCHANGED <<raw, chunks, blocks>>
    /\ UNCHANGED factOthers

FactNext == CleanRaw \/ SplitChunks \/ CleanChunks \/ FilterReal

FactSpec == FactInit /\ [][FactNext]_vars

----------------------------------------------------------------------------
(* Claims about the article splitting *)

RequiredTags == {TagPD, TagSN, TagLP}

\* some line of the block, taken alone and stripped, is the tag
HasStandaloneLine(block, tag) ==
    LET ls == SplitLines(block)
    IN \E k \in 1..Len(ls) : Strip(ls[k]) = tag

HasAllRequiredTags(block) == \A tag \in RequiredTags : HasStandaloneLine(block, tag)

\* C4: a chunk is kept as a real article exactly when PD, SN and LP each stand
\* alone on some line of it, whatever the order of those lines; the kept
\* articles are the accepted chunks, in order.
C4_RealIffAllThreeTags ==
    fpc = "done" => real = SelectSeq(blocks, HasAllRequiredTags)

C4_Witness ==
    /\ fpc = "done"
    /\ Len(blocks) = 2 /\ Len(real) = 1
    /\ SplitLines(real[1]) = <<TagHD, TagLP, TagSN, <<" ","P","D">> >>

----------------------------------------------------------------------------
(* normalize_utterances.py: names *)

UpperSeq == <<"A","B","C","D","E","F","G","H","I","J","K","L","M",
              "N","O","P","Q","R","S","T","U","V","W","X","Y","Z">>

LowerSeq == <<"a","b","c","d","e","f","g","h","i","j","k","l","m",
              "n","o","p","q","r","s","t","u","v","w","x","y","z">>

LowerChar(c) == IF c \in UpperChars THEN LowerSeq[CHOOSE i \in 1..26 : UpperSeq[i] = c] ELSE c

UpperChar(c) == IF c \in LowerChars THEN UpperSeq[CHOOSE i \in 1..26 : LowerSeq[i] = c] ELSE c

\* str.lower(), str.upper()
Lower(s) == [i \in 1..Len(s) |-> LowerChar(s[i])]

Upper(s) == [i \in 1..Len(s) |-> UpperChar(s[i])]

IsLetter(c) == c \in UpperChars \/ c \in LowerChars

\* str.title(): a letter after a letter is lowered, any other letter is raised
Title(s) == [i \in 1..Len(s) |->
                IF i > 1 /\ IsLetter(s[i - 1]) THEN LowerChar(s[i]) ELSE UpperChar(s[i])]

\* re.sub(r"\s+", " ", s): the first character of a whitespace run becomes a
\* space, the others go
CollapseSpaces(s) ==
    SelectSeq([i \in 1..Len(s) |->
                  IF ~IsSpace(s[i]) THEN s[i]
                  ELSE IF i > 1 /\ IsSpace(s[i - 1]) THEN "" ELSE " "],
              LAMBDA c : c # "")

\* a missing cell as pandas reads it, and a column the table does not have
NaN == <<"NaN">>

Missing == <<"Missing">>

\* str(value): str(nan) is "nan"
Str(v) == IF v = NaN THEN <<"n","a","n">> ELSE v

normalize_speaker_name(name) ==
    IF name = NaN THEN <<>>
    ELSE Title(CollapseSpaces(RStripDots(Strip(name))))

\* first index > i holding ")" or a newline, 0 when there is none
RECURSIVE ParenEnd(_, _)
ParenEnd(s, j) ==
    IF j > Len(s) THEN 0
    ELSE IF s[j] \in {")", NL} THEN j ELSE ParenEnd(s, j + 1)

\* re.sub(r"\(.*?\)", "", s): each "(" up to the next ")" of its line
RECURSIVE RemoveParensFrom(_, _)
RemoveParensFrom(s, i) ==
    IF i > Len(s) THEN <<>>
    ELSE LET j == IF s[i] = "(" THEN ParenEnd(s, i + 1) ELSE 0
         IN IF j # 0 /\ s[j] = ")" THEN RemoveParensFrom(s, j + 1)
            ELSE <<s[i]>> \o RemoveParensFrom(s, i + 1)

\* re.sub(r"[^a-z\s]", "", s)
RemoveNonLetters(s) == SelectSeq(s, LAMBDA c : c \in LowerChars \/ IsSpace(c))

clean_for_matching(name) ==
    CollapseSpaces(RemoveNonLetters(RemoveParensFrom(Strip(Lower(Str(name))), 1)))

\* set(s.split()): the maximal runs of non-whitespace
Tokens(s) ==
    { Sub(s, a, b) : <<a, b>> \in
        { ab \in (1..Len(s)) \X (2..(Len(s) + 1)) :
            /\ ab[1] < ab[2]
            /\ \A k \in ab[1]..(ab[2] - 1) : ~IsSpace(s[k])
            /\ (ab[1] = 1 \/ IsSpace(s[ab[1] - 1]))
            /\ (ab[2] = Len(s) + 1 \/ IsSpace(s[ab[2]])) } }

----------------------------------------------------------------------------
(* normalize_utterances.py: match_role *)

CanonicalRoles == {"Candidate_R", "Candidate_D", "Candidate_I", "Moderator"}

NoEntry == "NoEntry"

\* d[k] = v of a dict kept as its items in insertion order: an existing key keeps
\* its place and takes the new value
DictSet(d, k, v) ==
    IF \E i \in 1..Len(d) : d[i][1] = k
    THEN [i \in 1..Len(d) |-> IF d[i][1] = k THEN <<k, v>> ELSE d[i]]
    ELSE Append(d, <<k, v>>)

\* row.get(column, "")
RowGet(row, column) == IF row[column] = Missing THEN <<>> ELSE row[column]

\* the dict literal of lines 106-111
CanonicalMapOf(row) ==
    DictSet(DictSet(DictSet(DictSet(<<>>,
        Str(RowGet(row, "candidate_R")), "Candidate_R"),
        Str(RowGet(row, "candidate_D")), "Candidate_D"),
        Str(RowGet(row, "candidate_I")), "Candidate_I"),
        Str(RowGet(row, "moderator")), "Moderator")

\* name_tokens & candidate_tokens is not empty
Overlaps(name_tokens, full_name) ==
    full_name # <<>> /\ (name_tokens \cap Tokens(clean_for_matching(full_name))) # {}

\* the loop of lines 55-63 from entry i on: the role returned, "none" when the
\* loop ends without returning
RECURSIVE RosterRole(_, _, _)
RosterRole(name_tokens, cmap, i) ==
    IF i > Len(cmap) THEN "none"
    ELSE IF cmap[i][1] = <<>> THEN RosterRole(name_tokens, cmap, i + 1)
    ELSE IF Overlaps(name_tokens, cmap[i][1]) THEN cmap[i][2]
    ELSE RosterRole(name_tokens, cmap, i + 1)

GenericModeratorWords ==
    { <<"m","o","d","e","r","a","t","o","r">>, <<"q","u","e","s","t","i","o","n">>,
      <<"q">>, <<"a","u","d","i","e","n","c","e">> }

AmbiguousWord == <<"p","r","e","s","i","d","e","n","t">>

DefaultRoleUnknown == "Unknown"

\* line 87
DefaultRole == "Moderator"

\* match_role letting a cached decision override the roster
MatchRuleCacheFirst(name, cmap) ==
    LET name_clean == clean_for_matching(name)
        name_tokens == Tokens(name_clean)
        r == RosterRole(name_tokens, cmap, 1)
        decided == { d \in DOMAIN ambiguous_resolution_cache :
                        ambiguous_resolution_cache[d] # NoEntry }
    IN IF decided # {} /\ r # "none"
       THEN [rule |-> "roster", role |-> ambiguous_resolution_cache[CHOOSE d \in decided : TRUE]]
       ELSE IF r # "none" THEN [rule |-> "roster", role |-> r]
       ELSE IF \E k \in GenericModeratorWords : Contains(name_clean, k)
            THEN [rule |-> "generic", role |-> "Moderator"]
       ELSE IF Contains(name_clean, AmbiguousWord)
            THEN [rule |-> "ambiguous", role |-> "none"]
       ELSE [rule |-> "default", role |-> DefaultRole]

\* match_role testing the generic words before the roster
MatchRuleGenericFirst(name, cmap) ==
    LET name_clean == clean_for_matching(name)
        name_tokens == Tokens(name_clean)
        r == RosterRole(name_tokens, cmap, 1)
    IN IF \E k \in GenericModeratorWords : Contains(name_clean, k)
       THEN [rule |-> "generic", role |-> "Moderator"]
       ELSE IF r # "none" THEN [rule |-> "roster", role |-> r]
       ELSE IF Contains(name_clean, AmbiguousWord)
            THEN [rule |-> "ambiguous", role |-> "none"]
       ELSE [rule |-> "default", role |-> DefaultRole]

\* match_role up to the point where it returns or consults the cache: the
\* rule that fires and, unless the label is ambiguous, the role returned
MatchRule(name, cmap) ==
    LET name_clean == clean_for_matching(name)
        name_tokens == Tokens(name_clean)
        r == RosterRole(name_tokens, cmap, 1)
    IN IF r # "none" THEN [rule |-> "roster", role |-> r]
       ELSE IF \E k \in GenericModeratorWords : Contains(name_clean, k)
            THEN [rule |-> "generic", role |-> "Moderator"]
       ELSE IF Contains(name_clean, AmbiguousWord)
            THEN [rule |-> "ambiguous", role |-> "none"]
       ELSE [rule |-> "default", role |-> DefaultRole]

\* the dict of lines 78-83
ResolvedOf(choice) ==
    IF choice = <<"R">> THEN "Candidate_R"
    ELSE IF choice = <<"D">> THEN "Candidate_D"
    ELSE IF choice = <<"I">> THEN "Candidate_I"
    ELSE "Moderator"

ValidChoices == { <<"R">>, <<"D">>, <<"I">>, <<"M">> }

\* a decision stored after the cache is cleared
CacheAfterDecisionCleared(cache, debate_id, resolved) ==
    [d \in DOMAIN cache |-> IF d = debate_id THEN resolved ELSE NoEntry]

\* a decision that is returned but not stored
CacheAfterDecisionNotStored(cache, debate_id, resolved) == cache

\* ambiguous_resolution_cache[debate_id] = resolved
CacheAfterDecision(cache, debate_id, resolved) == [cache EXCEPT ![debate_id] = resolved]

----------------------------------------------------------------------------
(* normalize_utterances.py: normalize_all_speakers *)

MaxRows == 2

\* utterance_files, sorted: one file per debate id
Files == <<"d1", "d2">>

DebateIds == {Files[i] : i \in 1..Len(Files)}

MetaRows ==
    { [candidate_R |-> <<"A","l"," ","R","o","e">>, candidate_D |-> <<"A","l"," ","G","o","r","e">>,
       candidate_I |-> NaN, moderator |-> <<"J","i","m"," ","L","e","e">>],
      [candidate_R |-> <<"B","u","s","h","(","S","r",")">>, candidate_D |-> <<"A","l"," ","G","o","r","e">>,
       candidate_I |-> NaN, moderator |-> NaN],
      [candidate_R |-> <<"A","l"," ","G","o","r","e">>, candidate_D |-> <<"A","l"," ","R","o","e">>,
       candidate_I |-> Missing, moderator |-> <<"J","i","m"," ","L","e","e">>] }

\* the rows metadata[metadata["filename"] == debate_id] may hold
MetaMatches == UNION { [1..n -> MetaRows] : n \in 0..2 }

\* df["speaker"] values
Speakers ==
    { <<"G","O","R","E">>, <<"A","L"," ","G","O","R","E">>, <<"B","U","S","H">>,
      <<"P","R","E","S","I","D","E","N","T">>,
      <<"P","R","E","S","I","D","E","N","T"," "," ","G","O","R","E",".">>,
      <<"T","h","e"," ","P","r","e","s","i","d","e","n","t">>,
      <<"P","R","E","S","I","D","E","N","T"," ","Q","U","A","Y","L","E">>,
      <<"Q","U","E","S","T","I","O","N"," ","G","O","R","E">>,
      <<"Q",".">>, <<"N","a","n">>, <<"X","Y">>, NaN }

\* what input() may return
Inputs == { <<"R">>, <<"d">>, <<" ","m"," ">>, <<"I">>, <<"x">>, <<>> }

NoCall == [name |-> <<>>, rule |-> "none", role |-> "none"]

RoleStart ==
    /\ ambiguous_resolution_cache = [d \in DebateIds |-> NoEntry]
    /\ fi = 1 /\ canonical_map = <<>> /\ nrows = 0
    /\ normalized_roles = <<>> /\ last = NoCall
    /\ asked = [d \in DebateIds |-> 0]
    /\ saved = <<>>
    /\ rpc = "files"

RoleInit == RoleStart /\ SegIdle /\ FactIdle /\ NormIdle /\ MergeIdle /\ ProbeIdle /\ BatchIdle /\ ExtractIdle /\ CallIdle /\ DumpIdle /\ HonIdle

\* lines 93-111: the next file is read and its metadata looked up; without a
\* metadata row the file is skipped
OpenFile ==
    /\ rpc = "files" /\ fi <= Len(Files)
    /\ \E meta_row \in MetaMatches, n \in 0..MaxRows :
          /\ IF meta_row = <<>>
             THEN /\ fi' = fi + 1
                  /\ UNCHANGED <<canonical_map, nrows, normalized_roles, rpc>>
             ELSE /\ canonical_map' = CanonicalMapOf(meta_row[1])
                  /\ nrows' = n
                  /\ normalized_roles' = <<>>
                  /\ rpc' = "rows"
                  /\ UNCHANGED fi
    /\ UNCHANGED <<ambiguous_resolution_cache, last, asked, saved>>
    /\ UNCHANGED roleOthers

\* match_role answering an ambiguous label from the decision of any debate
MatchRoleReturnsAnyDecision ==
    /\ rpc = "rows" /\ Len(normalized_roles) < nrows
    /\ \E speaker \in Speakers, d \in DOMAIN ambiguous_resolution_cache :
          LET norm_name == normalize_speaker_name(speaker)
              m == MatchRule(norm_name, canonical_map)
          IN /\ m.rule = "ambiguous" => ambiguous_resolution_cache[d] # NoEntry
             /\ LET role == IF m.rule = "ambiguous"
                            THEN ambiguous_resolution_cache[d] ELSE m.role
                IN /\ last' = [name |-> norm_name,
                               rule |-> IF m.rule = "ambiguous" THEN "cached" ELSE m.rule,
                               role |-> role]
                   /\ normalized_roles' = Append(normalized_roles, role)
    /\ UNCHANGED <<ambiguous_resolution_cache, fi, canonical_map, nrows, asked, saved, rpc>>
    /\ UNCHANGED roleOthers

\* lines 115-118 with match_role returning at once: by the roster, the generic
\* words, the default, or the cached decision of the debate
MatchRoleReturns ==
    /\ rpc = "rows" /\ Len(normalized_roles) < nrows
    /\ \E speaker \in Speakers :
          LET norm_name == normalize_speaker_name(speaker)
              m == MatchRule(norm_name, canonical_map)
              debate_id == Files[fi]
          IN /\ m.rule = "ambiguous" => ambiguous_resolution_cache[debate_id] # NoEntry
             /\ LET role == IF m.rule = "ambiguous"
                            THEN ambiguous_resolution_cache[debate_id] ELSE m.role
                IN /\ last' = [name |-> norm_name,
                               rule |-> IF m.rule = "ambiguous" THEN "cached" ELSE m.rule,
                               role |-> role]
                   /\ normalized_roles' = Append(normalized_roles, role)
    /\ UNCHANGED <<ambiguous_resolution_cache, fi, canonical_map, nrows, asked, saved, rpc>>
    /\ UNCHANGED roleOthers

\* lines 70-75: an ambiguous label of a debate without a cached decision:
\* match_role prints the question and enters its input loop
MatchRoleAsks ==
    /\ rpc = "rows" /\ Len(normalized_roles) < nrows
    /\ \E speaker \in Speakers :
          LET norm_name == normalize_speaker_name(speaker)
              m == MatchRule(norm_name, canonical_map)
              debate_id == Files[fi]
          IN /\ m.rule = "ambiguous"
             /\ ambiguous_resolution_cache[debate_id] = NoEntry
             /\ last' = [name |-> norm_name, rule |-> "asking", role |-> "none"]
             /\ asked' = [asked EXCEPT ![debate_id] = @ + 1]
    /\ rpc' = "prompt"
    /\ UNCHANGED <<ambiguous_resolution_cache, fi, canonical_map, nrows, normalized_roles, saved>>
    /\ UNCHANGED roleOthers

\* lines 76-85: input() returns a valid choice: it is cached and returned
InputValid ==
    /\ rpc = "prompt"
    /\ \E answer \in Inputs :
          LET choice == Upper(Strip(answer))
              resolved == ResolvedOf(choice)
          IN /\ choice \in ValidChoices
             /\ ambiguous_resolution_cache' =
                   CacheAfterDecision(ambiguous_resolution_cache, Files[fi], resolved)
             /\ last' = [last EXCEPT !.rule = "decided", !.role = resolved]
             /\ normalized_roles' = Append(normalized_roles, resolved)
    /\ rpc' = "rows"
    /\ UNCHANGED <<fi, canonical_map, nrows, asked, saved>>
    /\ UNCHANGED roleOthers

\* any other answer taken for the moderator without asking again
InputInvalidTakenAsModerator ==
    /\ rpc = "prompt"
    /\ \E answer \in Inputs : Upper(Strip(answer)) \notin ValidChoices
    /\ last' = [last EXCEPT !.rule = "decided", !.role = "Moderator"]
    /\ normalized_roles' = Append(normalized_roles, "Moderator")
    /\ rpc' = "rows"
    /\ UNCHANGED <<ambiguous_resolution_cache, fi, canonical_map, nrows, asked, saved>>
    /\ UNCHANGED roleOthers

\* lines 75-77: any other answer: the loop asks again
InputInvalid ==
    /\ rpc = "prompt"
    /\ \E answer \in Inputs : Upper(Strip(answer)) \notin ValidChoices
    /\ UNCHANGED roleVars
    /\ UNCHANGED roleOthers

\* input() raises (EOFError on a closed stdin): the except of line 128 prints
\* the error and the for loop goes on with the next file
InputRaises ==
    /\ rpc = "prompt"
    /\ last' = [last EXCEPT !.rule = "raised"]
    /\ fi' = fi + 1
    /\ rpc' = "files"
    /\ UNCHANGED <<ambiguous_resolution_cache, canonical_map, nrows, normalized_roles, asked, saved>>
    /\ UNCHANGED roleOthers

\* lines 121-126: the roles are inserted and the file is written
SaveFile ==
    /\ rpc = "rows" /\ Len(normalized_roles) = nrows
    /\ saved' = Append(saved, Files[fi])
    /\ fi' = fi + 1
    /\ rpc' = "files"
    /\ UNCHANGED <<ambiguous_resolution_cache, canonical_map, nrows, normalized_roles, last, asked>>
    /\ UNCHANGED roleOthers

\* line 131: all files done
AllNormalized ==
    /\ rpc = "files" /\ fi > Len(Files)
    /\ rpc' = "done"
    /\ UNCHANGED <<ambiguous_resolution_cache, fi, canonical_map, nrows, normalized_roles, last, asked, saved>>
    /\ UNCHANGED roleOthers

RoleNext ==
    \/ OpenFile \/ MatchRoleReturns \/ MatchRoleAsks \/ InputValid \/ InputInvalid
    \/ InputRaises \/ SaveFile \/ AllNormalized

RoleSpec == RoleInit /\ [][RoleNext]_vars

----------------------------------------------------------------------------
(* claims about match_role *)

\* the call recorded in last has returned, and it was made for the file at hand
CallCompleted ==
    /\ rpc = "rows" /\ normalized_roles # <<>>
    /\ last.rule \in {"roster", "generic", "cached", "decided", "default"}

\* the roster of a metadata row in roster order, names as the code reads them
RosterOrder(row) ==
    << <<Str(RowGet(row, "candidate_R")), "Candidate_R">>,
       <<Str(RowGet(row, "candidate_D")), "Candidate_D">>,
       <<Str(RowGet(row, "candidate_I")), "Candidate_I">>,
       <<Str(RowGet(row, "moderator")), "Moderator">> >>

OverlappingEntries(name, entries) ==
    { i \in 1..Len(entries) : Overlaps(Tokens(clean_for_matching(name)), entries[i][1]) }

FirstOf(S) == CHOOSE i \in S : \A j \in S : i <= j

\* C5: when roster entries share a token with the label, match_role returns the
\* role of the first overlapping entry in roster order (candidate_R, candidate_D,
\* candidate_I, moderator), however many tokens each entry shares.
C5_FirstInRosterOrder ==
    CallCompleted =>
        \A row \in MetaRows :
            LET entries == RosterOrder(row)
                over == OverlappingEntries(last.name, entries)
            IN (CanonicalMapOf(row) = canonical_map /\ over # {})
                  => last.role = entries[FirstOf(over)][2]

\* C6: the decision for an ambiguous label is requested at most once per debate
\* id, and a later ambiguous label of the debate returns the cached decision.
C6_AskedAtMostOncePerDebate ==
    /\ \A d \in DebateIds : asked[d] <= 1
    /\ (CallCompleted /\ last.rule = "cached")
          => (asked[Files[fi]] = 1 /\ last.role = ambiguous_resolution_cache[Files[fi]])

\* an ambiguous label answered from the cache after the debate's one request
C6_Witness ==
    /\ CallCompleted /\ last.rule = "cached"
    /\ Len(normalized_roles) >= 2
    /\ asked[Files[fi]] = 1

\* C7: every completed call of match_role returns one role of the closed set
\* {Candidate_R, Candidate_D, Candidate_I, Moderator}, whatever the label, the
\* roster (missing names included) and the cache.
C7_RoleInClosedSet ==
    /\ \A i \in 1..Len(normalized_roles) : normalized_roles[i] \in CanonicalRoles
    /\ CallCompleted => last.role \in CanonicalRoles

\* a label no rule recognises, resolved against a roster with missing names
\* while the cache holds a decision
C7_Witness ==
    /\ CallCompleted /\ last.rule = "default"
    /\ \E i \in 1..Len(canonical_map) : canonical_map[i][1] = Str(NaN)
    /\ \E d \in DebateIds : ambiguous_resolution_cache[d] # NoEntry

----------------------------------------------------------------------------
(* media_final_adjustments.py: helpers *)

\* line 14
MIN_WORDS == 100

\* \w over the characters the model uses
IsWordChar(c) == c \in UpperChars \/ c \in LowerChars \/ c \in DigitChars \/ c = "_"

\* len(re.findall(r"\b\w+\b", text)): the maximal runs of word characters
word_count(txt) ==
    IF txt = NaN THEN 0
    ELSE Cardinality({ i \in 1..Len(txt) :
                         IsWordChar(txt[i]) /\ (i = 1 \/ ~IsWordChar(txt[i - 1])) })

\* hashlib.md5: the digest is named by the bytes digested
md5(bytes) == <<"md5", bytes>>

\* a fingerprint of the first character alone
hash_body_first_char(txt) == md5(SubSeq(txt, 1, 1))

\* hash_body of a str (a float body makes re.sub raise, see Fingerprint)
hash_body(txt) == md5(Lower(Strip(CollapseSpaces(txt))))

KwAppeared == <<"A","p","p","e","a","r","e","d"," ","i","n"," ","t","h","e"," ">>

KwWriteTo == <<"W","r","i","t","e"," ","t","o"," ">>

KwCopyright == <<"C","o","p","y","r","i","g","h","t"," ">>

KwReserved == <<"A","l","l"," ","R","i","g","h","t","s"," ","R","e","s","e","r","v","e","d">>

KwReservedDot == <<"A","l","l"," ","R","i","g","h","t","s"," ","R","e","s","e","r","v","e","d",".">>

KwDocument == <<"D","o","c","u","m","e","n","t"," ">>

KwNypost == <<"@","n","y","p","o","s","t",".","c","o","m">>

KwSubscribe == <<"S","u","b","s","c","r","i","b","e"," ","t","o"," ","W","S","J">>

\* patterns 4-7, 9 and 10 of BOILERPLATE_LINE_PATTERNS: the whole line is one of these
BoilerplateWholeLines ==
    { <<"A","l","l"," ","R","i","g","h","t","s"," ","R","e","s","e","r","v","e","d">>,
      <<"A","l","l"," ","R","i","g","h","t","s"," ","R","e","s","e","r","v","e","d",".">>,
      <<"D","o","w"," ","J","o","n","e","s"," ","&"," ","C","o","m","p","a","n","y",","," ","I","n","c",".">>,
      <<"N",".","Y",".","P","."," ","H","o","l","d","i","n","g","s",","," ","I","n","c",".">>,
      <<"T","h","e"," ","N","e","w"," ","Y","o","r","k"," ","T","i","m","e","s"," ","C","o","m","p","a","n","y">>,
      <<"E","n","g","l","i","s","h">>,
      <<"S","C">>,
      <<"E","D">>,
      <<"P","G">>,
      <<"L","A">>,
      <<"C","Y">>,
      <<"N","S">>,
      <<"R","E">>,
      <<"P","U","B">>,
      <<"A","N">>,
      <<"I","P","D">>,
      <<"S","E">>,
      <<"I","N">> }

\* .+@.+\..+ from index i of s to its end: a character, "@", a character, ".", a character
HasAddressFrom(s, i) ==
    \E a \in (i + 1)..Len(s) : \E d \in (a + 2)..(Len(s) - 1) : s[a] = "@" /\ s[d] = "."

\* \d{4} at index i
FourDigitsAt(s, i) == i + 3 <= Len(s) /\ \A k \in i..(i + 3) : s[k] \in DigitChars

\* any(p.match(line) for p in patterns), line stripped and not empty
IsBoilerplateLine(line) ==
    \/ StartsWith(line, KwAppeared)
    \/ (StartsWith(line, KwWriteTo) /\ HasAddressFrom(line, Len(KwWriteTo) + 1))
    \/ /\ StartsWith(line, KwCopyright) /\ FourDigitsAt(line, 11)
       /\ \/ (EndsWith(line, KwReserved) /\ Len(line) - Len(KwReserved) + 1 >= 16)
          \/ (EndsWith(line, KwReservedDot) /\ Len(line) - Len(KwReservedDot) + 1 >= 16)
    \/ line \in BoilerplateWholeLines
    \/ /\ StartsWith(line, KwDocument) /\ Len(line) > Len(KwDocument)
       /\ \A k \in (Len(KwDocument) + 1)..Len(line) : line[k] \in UpperChars \cup DigitChars
    \/ EndsWith(line, KwNypost)
    \/ StartsWith(line, KwNypost)
    \/ (Len(line) >= 3 /\ \A k \in 1..Len(line) : line[k] = "-")
    \/ StartsWith(line, KwSubscribe)

\* TAIL_TRIM_PATTERNS[0] from the keyword on: Copyright \d{4}.+All Rights Reserved\.\s*$
CopyrightTailAt(t, c) ==
    /\ OccursAt(t, KwCopyright, c) /\ FourDigitsAt(t, c + 10)
    /\ LET q == SkipSpaceBack(t, Len(t)) - Len(KwReservedDot) + 1
       IN q >= c + 15 /\ OccursAt(t, KwReservedDot, q)

\* TAIL_TRIM_PATTERNS[1] from the keyword on: Write to .+@.+\..+\s*$
WriteToTailAt(t, c) == OccursAt(t, KwWriteTo, c) /\ HasAddressFrom(t, c + Len(KwWriteTo))

\* TAIL_TRIM_PATTERNS[2] from the keyword on: Subscribe to WSJ.*\s*$
SubscribeTailAt(t, c) == OccursAt(t, KwSubscribe, c)

\* TAIL_TRIM_PATTERNS[pat - 1] from the keyword on
TailAt(t, c, pat) ==
    IF pat = 1 THEN CopyrightTailAt(t, c)
    ELSE IF pat = 2 THEN WriteToTailAt(t, c)
    ELSE SubscribeTailAt(t, c)

\* re.match(pat, t) and t = m.group(1).rstrip(): the lazy group ends at the first
\* newline whose run of newlines is followed by a matching tail
TailTrim(t, pat) ==
    LET starts == { g \in 1..Len(t) : t[g] = NL /\ TailAt(t, NewlineRunEnd(t, g), pat) }
    IN IF starts = {} THEN t
       ELSE RStrip(SubSeq(t, 1, (CHOOSE g \in starts : \A h \in starts : g <= h) - 1))

\* lines 57-64 keep every line that is blank or matches no pattern
KeptLines(lns) ==
    SelectSeq(lns, LAMBDA ln : Strip(ln) = <<>> \/ ~IsBoilerplateLine(Strip(ln)))

strip_boilerplate_lines(txt) ==
    IF txt = NaN \/ Strip(txt) = <<>> THEN txt
    ELSE LET t == Join(KeptLines(SplitLines(txt)), <<NL>>)
         IN TailTrim(TailTrim(TailTrim(t, 1), 2), 3)

\* (?m)^\s*ns\s*(?=\S) matches at index i: whitespace, "ns", whitespace, and a
\* character that is not whitespace
BulletAt(s, i) ==
    LET j == SkipSpace(s, i)
    IN /\ AtLineStart(s, i)
       /\ j + 1 <= Len(s) /\ s[j] = "n" /\ s[j + 1] = "s"
       /\ SkipSpace(s, j + 2) <= Len(s)

\* where the match that starts at i ends
BulletEnd(s, i) == SkipSpace(s, SkipSpace(s, i) + 2)

\* re.sub(r"(?m)^\s*ns\s*(?=\S)", "", text) from index i on: the scan goes on
\* where a match ended
RECURSIVE NypBulletsFrom(_, _)
NypBulletsFrom(s, i) ==
    LET starts == { c \in i..Len(s) : BulletAt(s, c) }
        first == CHOOSE c \in starts : \A d \in starts : c <= d
    IN IF starts = {} THEN Sub(s, i, Len(s) + 1)
       ELSE Sub(s, i, first) \o NypBulletsFrom(s, BulletEnd(s, first))

normalize_nyp_bullets(txt) == IF txt = NaN THEN txt ELSE NypBulletsFrom(txt, 1)

OutletNyp == <<"n","y","p">>

\* main._clean_body
clean_body(row) ==
    LET stripped == strip_boilerplate_lines(row.body)
    IN IF Lower(Str(row.outlet)) = OutletNyp THEN normalize_nyp_bullets(stripped) ELSE stripped

----------------------------------------------------------------------------
(* media_final_adjustments.py: main *)

MaxRecords == 3

\* a body line of n words
Words(n) == [i \in 1..(2 * n - 1) |-> IF i % 2 = 1 THEN "w" ELSE " "]

\* the text whose lines are lns
Body(lns) == Join(lns, <<NL>>)

OutletNyt == <<"n","y","t">>

\* rows INPUT_CSV may hold
InputRows ==
    { [outlet |-> OutletNyt, body |-> Words(MIN_WORDS)],
      [outlet |-> <<"N","Y","P">>, body |-> <<"W">> \o Tail(Words(MIN_WORDS)) \o <<" ">>],
      [outlet |-> OutletNyt, body |-> Body(<<Words(MIN_WORDS), <<"E","n","g","l","i","s","h">>,
                                             <<"D","o","c","u","m","e","n","t"," ","A","B","1","2">>, <<" ","-","-","-"," ">>,
                                             <<"W","r","i","t","e"," ","t","o"," ","a","@","b",".","c">>>>)],
      [outlet |-> OutletNyt, body |-> Words(MIN_WORDS - 1)],
      [outlet |-> OutletNyt, body |-> Body(<<Words(MIN_WORDS - 1), <<"E","n","g","l","i","s","h">>>>)],
      [outlet |-> OutletNyp, body |-> Body(<<Words(MIN_WORDS - 2), <<"n","s"," ","n","s"," ","f","o","o">>>>)],
      [outlet |-> OutletNyt, body |-> Body(<<Words(MIN_WORDS - 2), <<"n","s"," ","n","s"," ","f","o","o">>>>)],
      [outlet |-> OutletNyp, body |-> Body(<<Words(MIN_WORDS - 1), <<"n","s">>, <<" ","n","s"," ","b","a","r">>>>)],
      [outlet |-> OutletNyt, body |-> Body(<<Words(MIN_WORDS), <<"C","o","p","y","r","i","g","h","t"," ","2","0","2","0"," ","x">>,
                                             <<"y"," ","A","l","l"," ","R","i","g","h","t","s"," ","R","e","s","e","r","v","e","d",".">>, <<"W","r","i","t","e"," ","t","o"," ","m","e">>,
                                             <<"a","t"," ","a","@","b",".","c">>>>)],
      [outlet |-> OutletNyt, body |-> NaN] }

InputFiles == UNION { [1..n -> InputRows] : n \in 0..MaxRecords }

NoFp == <<>>

NormStart ==
    /\ input_csv \in InputFiles
    /\ articles = <<>> /\ output_csv = <<>> /\ npass = 1 /\ npc = "start"

NormInit == NormStart /\ SegIdle /\ FactIdle /\ RoleIdle /\ MergeIdle /\ ProbeIdle /\ BatchIdle /\ ExtractIdle /\ CallIdle /\ DumpIdle /\ HonIdle

\* lines 101-111: the file is read and the words of each body counted; row is the
\* row's position in the file
ReadInput ==
    /\ npc = "start"
    /\ articles' = [i \in 1..Len(input_csv) |->
                      [row |-> i, outlet |-> input_csv[i].outlet, body |-> input_csv[i].body,
                       body_words |-> word_count(input_csv[i].body), body_len |-> 0,
                       body_fp |-> NoFp]]
    /\ npc' = "read"
    /\ UNCHANGED <<input_csv, output_csv, npass>>
    /\ UNCHANGED normOthers

\* line 123
CleanBodies ==
    /\ npc = "read"
    /\ articles' = [i \in 1..Len(articles) |-> [articles[i] EXCEPT !.body = clean_body(articles[i])]]
    /\ npc' = "cleaned"
    /\ UNCHANGED <<input_csv, output_csv, npass>>
    /\ UNCHANGED normOthers

\* lines 126-127
Recount ==
    /\ npc = "cleaned"
    /\ articles' = [i \in 1..Len(articles) |->
                      [articles[i] EXCEPT !.body_words = word_count(articles[i].body),
                                          !.body_len = IF articles[i].body = NaN THEN 0
                                                       ELSE Len(articles[i].body)]]
    /\ npc' = "counted"
    /\ UNCHANGED <<input_csv, output_csv, npass>>
    /\ UNCHANGED normOthers

\* line 133: hash_body of every body; a body that is not a str (an empty cell,
\* read as nan) makes re.sub raise TypeError and main ends there
Fingerprint ==
    /\ npc = "counted"
    /\ IF \E i \in 1..Len(articles) : articles[i].body = NaN
       THEN npc' = "raised" /\ UNCHANGED articles
       ELSE /\ articles' = [i \in 1..Len(articles) |->
                              [articles[i] EXCEPT !.body_fp = hash_body(articles[i].body)]]
            /\ npc' = "hashed"
    /\ UNCHANGED <<input_csv, output_csv, npass>>
    /\ UNCHANGED normOthers

\* the rows of df at the indices of keep, in order
RowsAt(df_rows, keep) ==
    LET marked == [i \in 1..Len(df_rows) |-> IF i \in keep THEN df_rows[i] ELSE <<>>]
    IN SelectSeq(marked, LAMBDA r : r # <<>>)

\* drop_duplicates keeping the last row of each fingerprint
drop_duplicates_keep_last(df_rows) ==
    RowsAt(df_rows, { i \in 1..Len(df_rows) :
                        \A j \in (i + 1)..Len(df_rows) : df_rows[j].body_fp # df_rows[i].body_fp })

\* df.drop_duplicates(subset=["body_fp"], keep="first")
drop_duplicates(df_rows) ==
    RowsAt(df_rows, { i \in 1..Len(df_rows) :
                        \A j \in 1..(i - 1) : df_rows[j].body_fp # df_rows[i].body_fp })

\* line 135
DropDuplicates ==
    /\ npc = "hashed"
    /\ articles' = drop_duplicates(articles)
    /\ npc' = "deduped"
    /\ UNCHANGED <<input_csv, output_csv, npass>>
    /\ UNCHANGED normOthers

\* the filter with the minimum itself excluded
DropShortAtMinimum ==
    /\ npc = "deduped"
    /\ articles' = SelectSeq(articles, LAMBDA r : r.body_words > MIN_WORDS)
    /\ npc' = "filtered"
    /\ UNCHANGED <<input_csv, output_csv, npass>>
    /\ UNCHANGED normOthers

\* line 141
DropShort ==
    /\ npc = "deduped"
    /\ articles' = SelectSeq(articles, LAMBDA r : r.body_words >= MIN_WORDS)
    /\ npc' = "filtered"
    /\ UNCHANGED <<input_csv, output_csv, npass>>
    /\ UNCHANGED normOthers

\* lines 148-156: body_fp is not among the columns written
Save ==
    /\ npc = "filtered"
    /\ output_csv' = [i \in 1..Len(articles) |->
                        [outlet |-> articles[i].outlet, body |-> articles[i].body,
                         body_words |-> articles[i].body_words, body_len |-> articles[i].body_len]]
    /\ npc' = "saved"
    /\ UNCHANGED <<input_csv, articles, npass>>
    /\ UNCHANGED normOthers

\* pd.read_csv of a cell to_csv wrote: an empty string comes back as nan
ReadBack(body) == IF body = <<>> THEN NaN ELSE body

\* the script is run again with its output as its input
RunAgain ==
    /\ npc = "saved" /\ npass = 1
    /\ input_csv' = [i \in 1..Len(output_csv) |->
                       [outlet |-> output_csv[i].outlet, body |-> ReadBack(output_csv[i].body)]]
    /\ articles' = <<>>
    /\ output_csv' = <<>>
    /\ npass' = npass + 1
    /\ npc' = "start"
    /\ UNCHANGED normOthers

NormNext ==
    \/ ReadInput \/ CleanBodies \/ Recount \/ Fingerprint \/ DropDuplicates
    \/ DropShort \/ Save \/ RunAgain

NormSpec == NormInit /\ [][NormNext]_vars

----------------------------------------------------------------------------
(* claims about the normalizer *)

\* the fingerprint the run computes for row i of its input
FingerprintOfInput(i) == hash_body(clean_body(input_csv[i]))

\* C8: after a run no two retained records share a fingerprint; of the input
\* records sharing a fingerprint only the earliest can be retained; retained
\* records keep their input order.
C8_UniqueFirstInOrder ==
    npc \in {"deduped", "filtered", "saved"} =>
        /\ \A i, j \in 1..Len(articles) :
              i < j => (articles[i].body_fp # articles[j].body_fp /\ articles[i].row < articles[j].row)
        /\ \A i \in 1..Len(articles) :
              /\ articles[i].body_fp = FingerprintOfInput(articles[i].row)
              /\ \A k \in 1..(articles[i].row - 1) :
                    FingerprintOfInput(k) # articles[i].body_fp

\* a saved run whose input held two different bodies of one fingerprint: the first
\* is retained, the second is not
C8_Witness ==
    /\ npc = "saved" /\ npass = 1
    /\ Len(input_csv) >= 2 /\ Len(articles) >= 1
    /\ \E k \in 2..Len(input_csv) :
          /\ input_csv[1].body # input_csv[k].body
          /\ FingerprintOfInput(k) = FingerprintOfInput(1)
          /\ articles[1].row = 1
          /\ \A i \in 1..Len(articles) : articles[i].row # k

\* C9: a second run over the output of the first changes no body text and drops
\* no record.
C9_SecondRunChangesNothing ==
    (npass = 2 /\ npc = "saved") =>
        /\ Len(output_csv) = Len(input_csv)
        /\ \A i \in 1..Len(output_csv) : output_csv[i].body = input_csv[i].body

----------------------------------------------------------------------------
(* more claims about match_role *)

\* the roster entries sharing a token with the label
RosterHits(name, cmap) ==
    { i \in 1..Len(cmap) : Overlaps(Tokens(clean_for_matching(name)), cmap[i][1]) }

HasGenericWord(name) ==
    \E k \in GenericModeratorWords : Contains(clean_for_matching(name), k)

HasAmbiguousWord(name) == Contains(clean_for_matching(name), AmbiguousWord)

\* a label decided by the roster, the generic vocabulary or the default rule
NonAmbiguousLabel(name, cmap) ==
    RosterHits(name, cmap) # {} \/ HasGenericWord(name) \/ ~HasAmbiguousWord(name)

\* the role of a non-ambiguous label, from the label and the roster alone
RoleFromRoster(name, cmap) ==
    IF RosterHits(name, cmap) # {} THEN cmap[FirstOf(RosterHits(name, cmap))][2]
    ELSE "Moderator"

\* a step in which a call of match_role returns without asking
CallReturnsAtOnce ==
    /\ rpc = "rows" /\ rpc' = "rows"
    /\ Len(normalized_roles') = Len(normalized_roles) + 1

\* C12: for a non-ambiguous label match_role returns the role the label and the
\* roster determine, whatever the ambiguity cache holds, and leaves the cache
\* unchanged.
C12_NonAmbiguousIgnoresCache ==
    [][(CallReturnsAtOnce /\ NonAmbiguousLabel(last'.name, canonical_map)) =>
          /\ last'.role = RoleFromRoster(last'.name, canonical_map)
          /\ ambiguous_resolution_cache' = ambiguous_resolution_cache]_vars

\* a roster label resolved while the cache of the debate holds another role
C12_Witness ==
    /\ CallCompleted /\ last.rule = "roster"
    /\ ambiguous_resolution_cache[Files[fi]] \notin {NoEntry, last.role}

\* last records a call made for the file at hand: completed, or waiting for input
CallMade == CallCompleted \/ (rpc = "prompt" /\ last.rule = "asking")

\* C20: match_role applies its rules in a fixed order, the first that matches
\* winning: roster token overlap; else a generic-moderator word in the key gives
\* Moderator; else 'president' in the key takes the ambiguity path; else the
\* default Moderator. The ambiguity path is never taken when a roster or
\* generic rule fires.
C20_RuleOrder ==
    CallMade =>
        IF RosterHits(last.name, canonical_map) # {}
        THEN last.rule = "roster" /\ last.role = RoleFromRoster(last.name, canonical_map)
        ELSE IF HasGenericWord(last.name)
        THEN last.rule = "generic" /\ last.role = "Moderator"
        ELSE IF HasAmbiguousWord(last.name)
        THEN last.rule \in {"cached", "decided", "asking"}
        ELSE last.rule = "default" /\ last.role = "Moderator"

\* a label holding a generic word and 'president' decided by the generic rule,
\* after a label of the file was given a candidate's role
C20_Witness ==
    /\ CallCompleted /\ last.rule = "generic" /\ HasAmbiguousWord(last.name)
    /\ Len(normalized_roles) >= 2
    /\ normalized_roles[1] \in {"Candidate_R", "Candidate_D"}

----------------------------------------------------------------------------
(* merge_cleaned_utterances.py: one frame per cleaned debate file, joined with
   the metadata of the debate, concatenated into the final dataset *)

\* str.replace(old, new), left to right from index i
RECURSIVE ReplaceFrom(_, _, _, _)
ReplaceFrom(s, old, new, i) ==
    LET hits == { j \in i..(Len(s) - Len(old) + 1) : OccursAt(s, old, j) }
    IN IF hits = {} THEN SubSeq(s, i, Len(s))
       ELSE LET j == CHOOSE h \in hits : \A g \in hits : h <= g
            IN SubSeq(s, i, j - 1) \o new \o ReplaceFrom(s, old, new, j + Len(old))

Replace(s, old, new) == ReplaceFrom(s, old, new, 1)

DotTxt == <<".","t","x","t">>

UtterancesSuffix == <<"_","u","t","t","e","r","a","n","c","e","s">>

\* lines 20-25
role_map ==
    { [role |-> <<"C","a","n","d","i","d","a","t","e","_","R">>, meta_key |-> "candidate_R", party |-> "Republican"],
      [role |-> <<"C","a","n","d","i","d","a","t","e","_","D">>, meta_key |-> "candidate_D", party |-> "Democrat"],
      [role |-> <<"C","a","n","d","i","d","a","t","e","_","I">>, meta_key |-> "candidate_I", party |-> "Independent"],
      [role |-> <<"M","o","d","e","r","a","t","o","r">>, meta_key |-> "None", party |-> "nan"] }

get_speaker_and_party(norm_speaker, meta_row) ==
    LET role == Strip(Str(norm_speaker))
        hit  == { e \in role_map : e.role = role }
    IN IF hit # {}
       THEN LET e == CHOOSE x \in hit : TRUE
            IN IF e.meta_key # "None"
               THEN [name |-> Strip(Str(RowGet(meta_row, e.meta_key))), party |-> e.party]
               ELSE [name |-> <<"M","o","d","e","r","a","t","o","r">>, party |-> "nan"]
       ELSE [name |-> <<>>, party |-> ""]

\* the dict of lines 42-46 in its order
WinnerSlots ==
    << [role_key |-> "candidate_R", party |-> "Republican"],
       [role_key |-> "candidate_D", party |-> "Democrat"],
       [role_key |-> "candidate_I", party |-> "Independent"] >>

get_winner_party(meta_row) ==
    LET winner_name == Lower(Strip(Str(RowGet(meta_row, "winner"))))
        hits == { k \in 1..Len(WinnerSlots) :
                    LET candidate_name == Lower(Strip(Str(RowGet(meta_row, WinnerSlots[k].role_key))))
                    IN candidate_name # <<>> /\ Contains(candidate_name, winner_name) }
    IN IF hits = {} THEN ""
       ELSE WinnerSlots[CHOOSE k \in hits : \A h \in hits : k <= h].party

\* line 61: metadata[metadata["filename"] == debate_id]
MetaRowsOf(debate_id) == SelectSeq(metadata, LAMBDA r : r.filename = debate_id)

\* line 60
DebateIdOf(stem) == Replace(stem, UtterancesSuffix, <<>>)

\* lines 67-86: the frame of one debate, built from the first matching row;
\* the text column is carried through as it is and is left out
DebateFrame(debate_id, frame, row) ==
    [debate_id |-> debate_id,
     year |-> row.year, debate_type |-> row.debate_type,
     winner |-> row.winner, winner_party |-> get_winner_party(row),
     rows |-> [k \in 1..Len(frame) |->
                 [speaker_normalized |-> frame[k],
                  speaker |-> get_speaker_and_party(frame[k], row).name,
                  party |-> get_speaker_and_party(frame[k], row).party]]]

\* --- inputs ---

MaxMetaRows == 2

\* rows of debates_metadata.csv; an empty cell is read as NaN
MetaRecords ==
    { [filename |-> <<"d","1",".","t","x","t">>, year |-> 2000, candidate_R |-> <<"B","u","s","h">>, candidate_D |-> <<"A","l"," ","G","o","r","e">>,
       candidate_I |-> NaN, winner |-> <<"G","o","r","e">>, debate_type |-> "general"],
      [filename |-> <<"d","1",".","t","x","t">>, year |-> 2004, candidate_R |-> <<"B","u","s","h">>, candidate_D |-> <<"K","e","r","r","y">>,
       candidate_I |-> NaN, winner |-> <<"b","u","s","h"," ">>, debate_type |-> "general"],
      [filename |-> <<"d","2",".","t","x","t">>, year |-> 1992, candidate_R |-> <<"B","u","s","h">>, candidate_D |-> <<"C","l","i","n","t","o","n">>,
       candidate_I |-> <<"P","e","r","o","t">>, winner |-> NaN, debate_type |-> "general"],
      [filename |-> <<"d","2">>, year |-> 1996, candidate_R |-> NaN, candidate_D |-> <<"C","l","i","n","t","o","n">>,
       candidate_I |-> NaN, winner |-> NaN, debate_type |-> "primary"],
      [filename |-> <<"d","3",".","t","x","t">>, year |-> 1988, candidate_R |-> <<"B","u","s","h">>, candidate_D |-> <<"D","u","k","a","k","i","s">>,
       candidate_I |-> NaN, winner |-> <<"Q","u","a","y","l","e">>, debate_type |-> "primary"],
      [filename |-> <<"d","2",".","t","x","t">>, year |-> 2008, candidate_R |-> <<"A","l"," ","G","o","r","e"," ","J","r">>, candidate_D |-> <<"G","o","r","e">>,
       candidate_I |-> NaN, winner |-> <<"g","o","r","e">>, debate_type |-> "general"] }

MetaTables == UNION { [1..n -> MetaRecords] : n \in 0..MaxMetaRows }

\* stems of the files of CLEANED_DIR in sorted order, and their speaker_normalized columns
CleanedStems == << <<"d","1","_","u","t","t","e","r","a","n","c","e","s">>,
                  <<"d","2","_","u","t","t","e","r","a","n","c","e","s">>,
                  <<"d","3","_","u","t","t","e","r","a","n","c","e","s">> >>

CleanedFrames ==
    << << <<"C","a","n","d","i","d","a","t","e","_","R">>, <<"M","o","d","e","r","a","t","o","r">>, <<"C","a","n","d","i","d","a","t","e","_","D">> >>,
       << <<"C","a","n","d","i","d","a","t","e","_","I">>, <<"U","n","k","n","o","w","n">>, NaN >>,
       << <<" ","M","o","d","e","r","a","t","o","r"," ">> >> >>

FrameOf(stem) == CleanedFrames[CHOOSE k \in 1..Len(CleanedStems) : CleanedStems[k] = stem]

\* sorted(CLEANED_DIR.glob(...)): the stems present, in order
StemsPresent(S) ==
    LET marked == [k \in 1..Len(CleanedStems) |-> IF k \in S THEN <<CleanedStems[k]>> ELSE <<>>]
    IN [k \in 1..Cardinality(S) |-> SelectSeq(marked, LAMBDA m : m # <<>>)[k][1]]

MergeStart ==
    /\ metadata \in MetaTables
    /\ cleaned_files \in { StemsPresent(S) : S \in SUBSET (1..Len(CleanedStems)) }
    /\ mi = 0 /\ all_rows = <<>> /\ final_df = <<>> /\ mpc = "load"

MergeInit == MergeStart /\ SegIdle /\ FactIdle /\ RoleIdle /\ NormIdle /\ ProbeIdle /\ BatchIdle /\ ExtractIdle /\ CallIdle /\ DumpIdle /\ HonIdle

\* lines 14-16 and 56-57
LoadMetadata ==
    /\ mpc = "load"
    /\ metadata' = [k \in 1..Len(metadata) |->
                      [metadata[k] EXCEPT !.filename = Replace(@, DotTxt, <<>>)]]
    /\ mi' = 1
    /\ mpc' = "loop"
    /\ UNCHANGED <<cleaned_files, all_rows, final_df>>
    /\ UNCHANGED mergeOthers

\* lines 59-65: no metadata row for the debate id, the file is skipped
MergeSkip ==
    /\ mpc = "loop" /\ mi <= Len(cleaned_files)
    /\ MetaRowsOf(DebateIdOf(cleaned_files[mi])) = <<>>
    /\ mi' = mi + 1
    /\ UNCHANGED <<metadata, cleaned_files, all_rows, final_df, mpc>>
    /\ UNCHANGED mergeOthers

\* lines 59-88: the frame is built from meta_row.iloc[0] and appended
MergeFile ==
    /\ mpc = "loop" /\ mi <= Len(cleaned_files)
    /\ LET debate_id == DebateIdOf(cleaned_files[mi])
           meta_row  == MetaRowsOf(debate_id)
       IN /\ meta_row # <<>>
          /\ all_rows' = Append(all_rows, DebateFrame(debate_id, FrameOf(cleaned_files[mi]), meta_row[1]))
    /\ mi' = mi + 1
    /\ UNCHANGED <<metadata, cleaned_files, final_df, mpc>>
    /\ UNCHANGED mergeOthers

\* the rows of the frames in order, each with the debate columns
RECURSIVE ConcatFrames(_)
ConcatFrames(frames) ==
    IF frames = <<>> THEN <<>>
    ELSE LET f == frames[1]
         IN [k \in 1..Len(f.rows) |->
               [speaker_normalized |-> f.rows[k].speaker_normalized,
                speaker |-> f.rows[k].speaker, party |-> f.rows[k].party,
                winner |-> f.winner, winner_party |-> f.winner_party,
                year |-> f.year, debate_type |-> f.debate_type, debate_id |-> f.debate_id]]
            \o ConcatFrames(Tail(frames))

\* lines 91-97
ConcatSave ==
    /\ mpc = "loop" /\ mi > Len(cleaned_files)
    /\ all_rows # <<>>
    /\ final_df' = ConcatFrames(all_rows)
    /\ mpc' = "saved"
    /\ UNCHANGED <<metadata, cleaned_files, mi, all_rows>>
    /\ UNCHANGED mergeOthers

\* line 91: pd.concat of an empty list raises ValueError
ConcatRaises ==
    /\ mpc = "loop" /\ mi > Len(cleaned_files)
    /\ all_rows = <<>>
    /\ mpc' = "raised"
    /\ UNCHANGED <<metadata, cleaned_files, mi, all_rows, final_df>>
    /\ UNCHANGED mergeOthers

MergeNext == LoadMetadata \/ MergeSkip \/ MergeFile \/ ConcatSave \/ ConcatRaises

MergeSpec == MergeInit /\ [][MergeNext]_vars

\* how many metadata records match the debate id
MatchCount(debate_id) == Len(MetaRowsOf(debate_id))

\* C15: a transcript is assembled only if exactly one metadata record matches
\* its debate id; with no match or more than one it is skipped and adds no
\* records to the output.
C15_OnlySingleMatchAssembled ==
    (mpc \in {"loop", "saved", "raised"}) =>
        \A k \in 1..Len(all_rows) : MatchCount(all_rows[k].debate_id) = 1

----------------------------------------------------------------------------
(* is_speaker_line on lines around the length limit *)

MaxNameLen == 27

\* c repeated n times
Repeat(c, n) == [k \in 1..n |-> c]

\* a prefix alone, or a prefix and a capitalised name of up to MaxNameLen
\* letters, with or without the closing period, with or without blanks around
ProbeLines ==
    { pad \o p \o nm \o dot \o pad :
        p \in SpeakerPrefixes,
        nm \in {<<>>} \cup { <<" ", "A">> \o Repeat("b", n) : n \in 0..MaxNameLen },
        dot \in { <<".">>, <<>> },
        pad \in { <<>>, <<" ">> } }

ProbeStart == probe_line \in ProbeLines /\ probe_result = FALSE /\ ppc = "call"

ProbeInit == ProbeStart /\ SegIdle /\ FactIdle /\ RoleIdle /\ NormIdle /\ MergeIdle /\ BatchIdle /\ ExtractIdle /\ CallIdle /\ DumpIdle /\ HonIdle

\* lines 90-98
CallIsSpeakerLine ==
    /\ ppc = "call"
    /\ probe_result' = is_speaker_line(probe_line)
    /\ ppc' = "returned"
    /\ UNCHANGED probe_line
    /\ UNCHANGED probeOthers

ProbeNext == CallIsSpeakerLine

ProbeSpec == ProbeInit /\ [][ProbeNext]_vars

\* C19: a line is recognised as a speaker line only if its stripped length is
\* under 30 characters; a matching line of exactly 30 characters is not one.
C19_ThirtyIsTooLong ==
    (ppc = "returned" /\ probe_result) => Len(Strip(probe_line)) < MaxSpeakerLineLen

----------------------------------------------------------------------------
(* text_to_utterances.py, process_utterances: the loop over the configured
   files. What a parser returns for a file is the subject of SegSpec; here a
   parser either returns a frame or raises. *)

MaxBatchFiles == 3

\* what RAW_DIR and PROCESSED_DIR hold for a configured file: no file, a file
\* whose reading or parsing raises, a file whose output cannot be written, a
\* file that parses and is written
FileStates == {"missing", "unreadable", "unwritable", "good"}

BatchStart ==
    /\ debate_files \in UNION { [1..n -> Formats] : n \in 1..MaxBatchFiles }
    /\ raw_dir \in [1..Len(debate_files) -> FileStates]
    /\ bi = 1
    /\ attempted = [k \in 1..Len(debate_files) |-> 0]
    /\ processed_dir = {} /\ log = <<>> /\ pbar = 0 /\ bpc = "loop"

BatchInit == BatchStart /\ SegIdle /\ FactIdle /\ RoleIdle /\ NormIdle /\ MergeIdle /\ ProbeIdle /\ ExtractIdle /\ CallIdle /\ DumpIdle /\ HonIdle

\* the loop body has run once more for the file at bi
Attempt == [attempted EXCEPT ![bi] = @ + 1]

\* lines 172-177: the file does not exist
FileNotFoundAborts ==
    /\ bpc = "loop" /\ bi <= Len(debate_files)
    /\ raw_dir[bi] = "missing"
    /\ attempted' = Attempt
    /\ log' = Append(log, [level |-> "warning", file |-> bi])
    /\ pbar' = pbar + 1
    /\ bpc' = "done"
    /\ UNCHANGED <<debate_files, raw_dir, bi, processed_dir>>
    /\ UNCHANGED batchOthers

FileNotFound ==
    /\ bpc = "loop" /\ bi <= Len(debate_files)
    /\ raw_dir[bi] = "missing"
    /\ attempted' = Attempt
    /\ log' = Append(log, [level |-> "warning", file |-> bi])
    /\ pbar' = pbar + 1
    /\ bi' = bi + 1
    /\ UNCHANGED <<debate_files, raw_dir, processed_dir, bpc>>
    /\ UNCHANGED batchOthers

\* lines 179-183, 198-203: the parser raises, the except clause logs it
ParseRaises ==
    /\ bpc = "loop" /\ bi <= Len(debate_files)
    /\ raw_dir[bi] = "unreadable"
    /\ attempted' = Attempt
    /\ log' = Append(log, [level |-> "error", file |-> bi])
    /\ pbar' = pbar + 1
    /\ bi' = bi + 1
    /\ UNCHANGED <<debate_files, raw_dir, processed_dir, bpc>>
    /\ UNCHANGED batchOthers

\* lines 179-194, 198-203: the parser returns, df.to_csv raises
WriteRaises ==
    /\ bpc = "loop" /\ bi <= Len(debate_files)
    /\ raw_dir[bi] = "unwritable"
    /\ attempted' = Attempt
    /\ log' = Append(log, [level |-> "error", file |-> bi])
    /\ pbar' = pbar + 1
    /\ bi' = bi + 1
    /\ UNCHANGED <<debate_files, raw_dir, processed_dir, bpc>>
    /\ UNCHANGED batchOthers

\* lines 179-197, 203: the parser returns and the frame is written
FileWritten ==
    /\ bpc = "loop" /\ bi <= Len(debate_files)
    /\ raw_dir[bi] = "good"
    /\ attempted' = Attempt
    /\ processed_dir' = processed_dir \cup {bi}
    /\ log' = Append(log, [level |-> "info", file |-> bi])
    /\ pbar' = pbar + 1
    /\ bi' = bi + 1
    /\ UNCHANGED <<debate_files, raw_dir, bpc>>
    /\ UNCHANGED batchOthers

\* lines 205-207
BatchEnds ==
    /\ bpc = "loop" /\ bi > Len(debate_files)
    /\ bpc' = "done"
    /\ UNCHANGED <<debate_files, raw_dir, bi, attempted, processed_dir, log, pbar>>
    /\ UNCHANGED batchOthers

BatchNext == FileNotFound \/ ParseRaises \/ WriteRaises \/ FileWritten \/ BatchEnds

BatchSpec == BatchInit /\ [][BatchNext]_vars

\* the messages logged for file k
LoggedFor(k) == SelectSeq(log, LAMBDA m : m.file = k)

\* C13: every configured file is attempted exactly once; a missing file or an
\* exception while parsing or writing one file skips only that file, with one
\* logged message, and every later file is still processed and its output
\* written.
C13_FailureSkipsOnlyThatFile ==
    /\ \A k \in 1..Len(debate_files) : attempted[k] <= 1
    /\ bpc = "done" =>
          \A k \in 1..Len(debate_files) :
              /\ attempted[k] = 1
              /\ Len(LoggedFor(k)) = 1
              /\ (raw_dir[k] = "good") <=> (k \in processed_dir)
              /\ raw_dir[k] = "missing" => LoggedFor(k)[1].level = "warning"
              /\ raw_dir[k] \in {"unreadable", "unwritable"} => LoggedFor(k)[1].level = "error"

\* a batch that ended after a missing file and a failing file, each followed
\* by a file that was written
C13_Witness ==
    /\ bpc = "done"
    /\ \E a, b, c \in 1..Len(debate_files) :
          /\ a < c /\ b < c
          /\ raw_dir[a] = "missing" /\ raw_dir[b] \in {"unreadable", "unwritable"}
          /\ c \in processed_dir

----------------------------------------------------------------------------
(* more claims about split_factiva_file *)

IsHDLine(ln) == Strip(ln) = TagHD

\* the lines of a text that are not blank, stripped
NonBlankLines(s) ==
    LET ls == SplitLines(s)
    IN SelectSeq([k \in 1..Len(ls) |-> Strip(ls[k])], LAMBDA ln : ln # <<>>)

HDLineCount(s) == Len(SelectSeq(NonBlankLines(s), IsHDLine))

\* the non-blank lines of a text from its first HD line on
FromFirstHD(s) ==
    LET ls == NonBlankLines(s)
        hd == { k \in 1..Len(ls) : IsHDLine(ls[k]) }
    IN IF hd = {} THEN <<>>
       ELSE SubSeq(ls, CHOOSE k \in hd : \A h \in hd : k <= h, Len(ls))

RECURSIVE AllNonBlankLines(_)
AllNonBlankLines(bs) ==
    IF bs = <<>> THEN <<>> ELSE NonBlankLines(bs[1]) \o AllNonBlankLines(Tail(bs))

\* C17: the file is cut before every HD line: what precedes the first HD line
\* is in no block, every block begins at an HD line and holds no other, the
\* blocks together are the text from the first HD line on, the returned
\* articles are among the blocks, and a file without an HD line gives none.
C17_CutBeforeEveryHD ==
    fpc = "done" =>
        /\ \A k \in 1..Len(blocks) :
              /\ IsHDLine(SplitLines(blocks[k])[1])
              /\ HDLineCount(blocks[k]) = 1
        /\ AllNonBlankLines(blocks) = FromFirstHD(raw)
        /\ Len(blocks) = HDLineCount(raw)
        /\ \A k \in 1..Len(real) : \E j \in 1..Len(blocks) : real[k] = blocks[j]
        /\ HDLineCount(raw) = 0 => real = <<>>

\* a file with text before its first HD line and two HD lines: two blocks
C17_Witness ==
    /\ fpc = "done"
    /\ raw # <<>> /\ NonBlankLines(raw) # FromFirstHD(raw)
    /\ HDLineCount(raw) = 2
    /\ Len(blocks) = 2

----------------------------------------------------------------------------
(* media_dataset_cleaning.py: extract_body *)

TAG_TOKENS ==
    { <<"H","D">>, <<"B","Y">>, <<"W","C">>, <<"P","D">>, <<"S","N">>, <<"S","C">>, <<"P","G">>, <<"L","A">>, <<"C","Y">>, <<"L","P">>, <<"T","D">> } \cup
    { <<"N","S">>, <<"R","E">>, <<"I","P","C">>, <<"I","P","D">>, <<"P","U","B">>, <<"A","N">>, <<"A","R","T">>, <<"S","E">>, <<"E","D">>, <<"C","O">>, <<"N","O","T","E">> }

TAIL_TAGS == { <<"N","S">>, <<"R","E">>, <<"I","P","C">>, <<"I","P","D">>, <<"P","U","B">>, <<"A","N">>, <<"A","R","T">>, <<"S","E">> }

TAIL_PHRASES ==
    { <<"D","o","w"," ","J","o","n","e","s"," ","&"," ","C","o","m","p","a","n","y",","," ","I","n","c",".">>,
      <<"T","h","e"," ","N","e","w"," ","Y","o","r","k"," ","T","i","m","e","s"," ","C","o","m","p","a","n","y">>,
      <<"D","o","c","u","m","e","n","t"," ">> }

TagTD == <<"T","D">>

has_tag_line(chunk, tag) == TagLineSearch(chunk, tag)

_is_tag_line(s) == Strip(s) \in TAG_TOKENS

\* lines 57-68: the lines after the first start_tag line, up to the first
\* end-tag line after it
BlockLines(chunk, start_tag, end_tags) ==
    LET ls     == SplitLines(chunk)
        starts == { k \in 1..Len(ls) : Strip(ls[k]) = start_tag }
        first  == CHOOSE k \in starts : \A h \in starts : k <= h
        ends   == { k \in (first + 1)..Len(ls) : Strip(ls[k]) \in end_tags }
        stop   == IF ends = {} THEN Len(ls) + 1 ELSE CHOOSE k \in ends : \A h \in ends : k <= h
    IN IF starts = {} THEN <<>> ELSE SubSeq(ls, first + 1, stop - 1)

\* lines 72-77: cut at the first tail phrase unless it is at the very start
CutAtTailPhrase(txt) ==
    LET cut_positions == { i \in 1..Len(txt) : \E p \in TAIL_PHRASES : OccursAt(txt, p, i) }
        tcut == CHOOSE i \in cut_positions : \A j \in cut_positions : i <= j
    IN IF cut_positions # {} /\ tcut > 1 THEN RStrip(SubSeq(txt, 1, tcut - 1)) ELSE txt

\* lines 79-80
DropTagLines(txt) ==
    Strip(Join(SelectSeq(SplitLines(txt), LAMBDA ln : ~_is_tag_line(ln)), <<NL>>))

_extract_block(chunk, start_tag, end_tags) ==
    LET out == BlockLines(chunk, start_tag, end_tags)
        txt == Strip(Join(out, <<NL>>))
    IN Strip(CollapseNewlinesFrom(DropTagLines(CutAtTailPhrase(txt)), 1))

\* drop_line_patterns, matched at the start of the stripped line
DropLine(s) ==
    \/ /\ StartsWith(s, <<"A","p","p","e","a","r","e","d"," ","i","n"," ","t","h","e"," ">>)
       /\ \E i \in 17..Len(s) : OccursAt(s, <<" ","p","r","i","n","t"," ","e","d","i","t","i","o","n">>, i)
    \/ /\ StartsWith(s, <<"W","r","i","t","e"," ","t","o"," ">>) /\ EndsWith(s, <<"@","w","s","j",".","c","o","m">>)
       /\ Len(s) >= 9 + 1 + 8
    \/ /\ StartsWith(s, <<"C","o","p","y","r","i","g","h","t"," ">>) /\ FourDigitsAt(s, 11)
       /\ Len(s) >= 15 /\ s[15] = " "
       /\ EndsWith(s, <<" ","A","l","l"," ","R","i","g","h","t","s"," ","R","e","s","e","r","v","e","d",".">>) /\ Len(s) - 21 + 1 >= 16
    \/ /\ StartsWith(s, <<"(","c",")">>)
       /\ FourDigitsAt(s, SkipSpace(s, 4))
       /\ EndsWith(s, <<"A","l","l"," ","r","i","g","h","t","s"," ","r","e","s","e","r","v","e","d",".">>) /\ Len(s) - 20 + 1 >= SkipSpace(s, 4) + 4
    \/ s = KwReservedDot
    \/ Contains(s, <<"T","h","i","s"," ","m","a","t","e","r","i","a","l"," ","m","a","y"," ","n","o","t"," ","b","e"," ","p","u","b","l","i","s","h","e","d">>)
    \/ Contains(s, <<"D","i","s","t","r","i","b","u","t","e","d"," ","b","y">>)

\* line 146: ":" in s, len(s) < 120 and [a-z]{2,5}\s*:\s* (ignoring case) at the start
IsIndexCode(s) ==
    /\ Contains(s, <<":">>)
    /\ Len(s) < 120
    /\ \E n \in 2..5 :
          /\ n <= Len(s)
          /\ \A k \in 1..n : IsLetter(s[k])
          /\ SkipSpace(s, n + 1) <= Len(s)
          /\ s[SkipSpace(s, n + 1)] = ":"

\* re.sub(r"[ \t]+", " ", body)
CollapseBlanks(s) ==
    SelectSeq([i \in 1..Len(s) |->
                  IF s[i] \notin {" ", "\t"} THEN s[i]
                  ELSE IF i > 1 /\ s[i - 1] \in {" ", "\t"} THEN "" ELSE " "],
              LAMBDA c : c # "")

\* lines 138-148
KeepBodyLine(ln) ==
    LET s == Strip(ln)
    IN s \notin TAG_TOKENS /\ ~DropLine(s) /\ ~IsIndexCode(s)

\* lines 118-123: the start tag of the body, "" when there is none
BodyStartTagLeadFirst(has_td, has_lp) ==
    IF has_lp THEN TagLP ELSE IF has_td THEN TagTD ELSE <<>>

BodyStartTag(has_td, has_lp) ==
    IF has_td THEN TagTD ELSE IF has_lp THEN TagLP ELSE <<>>

extract_body(chunk) ==
    LET has_td == has_tag_line(chunk, TagTD)
        has_lp == has_tag_line(chunk, TagLP)
        start_tag == BodyStartTag(has_td, has_lp)
        block == _extract_block(chunk, start_tag, TAIL_TAGS)
        cleaned_lines == SelectSeq(SplitLines(block), KeepBodyLine)
        joined == Strip(Join(cleaned_lines, <<NL>>))
    IN IF start_tag = <<>> THEN <<>>
       ELSE Strip(CollapseNewlinesFrom(CollapseBlanks(joined), 1))

\* --- inputs ---

MaxChunkLines == 4

\* the lines a chunk is made of: tag lines, text, a line with a tail phrase
\* inside and one that opens with it, a blank line, a footer line, an
\* index-code line
ChunkLineKinds ==
    { TagTD, <<" ">> \o TagLP, <<"N","S">>, <<"B","Y">>, <<"x">>, <<"y"," "," ","z">>,
      <<"a"," ","D","o","c","u","m","e","n","t"," ","1">>, <<"D","o","c","u","m","e","n","t"," ","1">>,
      <<>>, KwReservedDot, <<"u","s",":"," ","a">> }

MaxBlankRun == 4

\* chunks with a run of blank lines between two lines of text
BlankRunChunks ==
    { Join(<<TagTD, <<"x">>>> \o [k \in 1..n |-> <<>>] \o <<<<"y">>>>, <<NL>>) : n \in 0..MaxBlankRun }

Chunks ==
    UNION { { Join(ls, <<NL>>) : ls \in [1..n -> ChunkLineKinds] } : n \in 0..MaxChunkLines }
        \cup BlankRunChunks

ExtractStart == article_chunk \in Chunks /\ article_body = <<>> /\ epc = "call"

ExtractInit == ExtractStart /\ SegIdle /\ FactIdle /\ RoleIdle /\ NormIdle /\ MergeIdle /\ ProbeIdle /\ BatchIdle /\ CallIdle /\ DumpIdle /\ HonIdle

\* lines 110-154
CallExtractBody ==
    /\ epc = "call"
    /\ article_body' = extract_body(article_chunk)
    /\ epc' = "returned"
    /\ UNCHANGED article_chunk
    /\ UNCHANGED extractOthers

ExtractNext == CallExtractBody

ExtractSpec == ExtractInit /\ [][ExtractNext]_vars

----------------------------------------------------------------------------
(* Claims about the body extraction *)

ChunkHasLine(tag) ==
    \E k \in 1..Len(SplitLines(article_chunk)) : Strip(SplitLines(article_chunk)[k]) = tag

FirstLineThatIs(tag) ==
    LET ls == SplitLines(article_chunk)
        at == { k \in 1..Len(ls) : Strip(ls[k]) = tag }
    IN CHOOSE k \in at : \A h \in at : k <= h

\* the lines after the first TD line if there is one, else after the first LP
\* line, up to the first tail-tag line that follows or the end of the chunk
ClaimedSpan ==
    LET ls    == SplitLines(article_chunk)
        start == IF ChunkHasLine(TagTD) THEN FirstLineThatIs(TagTD)
                 ELSE IF ChunkHasLine(TagLP) THEN FirstLineThatIs(TagLP) ELSE Len(ls) + 1
        tails == { k \in (start + 1)..Len(ls) : Strip(ls[k]) \in TAIL_TAGS }
        stop  == IF tails = {} THEN Len(ls) + 1 ELSE CHOOSE k \in tails : \A h \in tails : k <= h
    IN SubSeq(ls, start + 1, stop - 1)

\* the text lines among ls: stripped, runs of blanks collapsed, without blank
\* lines, tag-only lines, footer lines and index-code lines
TextLines(ls) ==
    LET stripped == [k \in 1..Len(ls) |-> Strip(ls[k])]
        kept == SelectSeq(stripped, LAMBDA s : s # <<>> /\ KeepBodyLine(s))
    IN [k \in 1..Len(kept) |-> CollapseBlanks(kept[k])]

\* C16 as stated: the body is the text of the claimed span, which ends at the
\* first tail-tag line or at the end of the chunk.
C16_BodyFromSpan ==
    epc = "returned" => NonBlankLines(article_body) = TextLines(ClaimedSpan)

\* C16, amended: the body is the text of the claimed span cut before its first
\* tail phrase (unless the span begins with the phrase); it is empty when the
\* chunk has neither a TD nor an LP line.
C16_BodyFromSpanCutAtPhrase ==
    epc = "returned" =>
        /\ NonBlankLines(article_body) =
              TextLines(SplitLines(CutAtTailPhrase(Strip(Join(ClaimedSpan, <<NL>>)))))
        /\ (~ChunkHasLine(TagTD) /\ ~ChunkHasLine(TagLP)) => article_body = <<>>

\* a chunk with an LP line before its TD line and a tail phrase in the span
C16_Witness ==
    /\ epc = "returned"
    /\ ChunkHasLine(TagLP) /\ ChunkHasLine(TagTD)
    /\ FirstLineThatIs(TagLP) < FirstLineThatIs(TagTD)
    /\ CutAtTailPhrase(Strip(Join(ClaimedSpan, <<NL>>))) # Strip(Join(ClaimedSpan, <<NL>>))
    /\ article_body # <<>>

----------------------------------------------------------------------------
(* ideology_api_annotation.py: call_openai. Seconds are counted in tenths and
   random.random() is one of 0.0, 0.4 and 0.9. *)

BACKOFF_BASE_S == 1

BACKOFF_MAX_S == 30

\* str(e) of the exceptions the request or json.loads may raise
ErrorMessages ==
    { <<"R","a","t","e"," ","l","i","m","i","t"," ","r","e","a","c","h","e","d">>,
      <<"E","r","r","o","r"," ","c","o","d","e",":"," ","4","2","9">>,
      <<"P","l","e","a","s","e"," ","t","r","y"," ","a","g","a","i","n"," ","l","a","t","e","r">>,
      <<"R","e","a","d"," ","t","i","m","e","o","u","t">>,
      <<"R","e","q","u","e","s","t"," ","t","i","m","e","d"," ","o","u","t",".">>,
      <<"C","o","n","n","e","c","t","i","o","n"," ","e","r","r","o","r",".">>,
      <<"E","x","p","e","c","t","i","n","g"," ","v","a","l","u","e",":"," ","c","h","a","r"," ","0">> }

\* line 160
IsRetryable(e) ==
    LET msg == Lower(e)
    IN \/ Contains(msg, <<"r","a","t","e"," ","l","i","m","i","t">>)
       \/ Contains(msg, <<"4","2","9">>)
       \/ Contains(msg, <<"p","l","e","a","s","e"," ","t","r","y"," ","a","g","a","i","n">>)
       \/ Contains(msg, <<"t","i","m","e","o","u","t">>)

\* 1.5 + random.random(), in tenths
RandomFactors == {15, 19, 24}

\* line 161
SleepFor(b, factor) ==
    IF (b * factor) \div 10 < BACKOFF_MAX_S * 10 THEN (b * factor) \div 10 ELSE BACKOFF_MAX_S * 10

CallStart == backoff = BACKOFF_BASE_S * 10 /\ error = <<>> /\ cpc = "try"

CallInit == CallStart /\ SegIdle /\ FactIdle /\ RoleIdle /\ NormIdle /\ MergeIdle /\ ProbeIdle /\ BatchIdle /\ ExtractIdle /\ DumpIdle /\ HonIdle

\* lines 145-157: the request succeeds and its content parses
CreateReturns ==
    /\ cpc = "try"
    /\ cpc' = "returned"
    /\ UNCHANGED <<backoff, error>>
    /\ UNCHANGED callOthers

\* lines 158-165: an exception whose message is retryable; sleep and loop
RetryAfterSleep ==
    /\ cpc = "try"
    /\ \E e \in ErrorMessages, factor \in RandomFactors :
          /\ IsRetryable(e)
          /\ error' = e
          /\ backoff' = SleepFor(backoff, factor)
    /\ UNCHANGED cpc
    /\ UNCHANGED callOthers

\* lines 158-160, 166-168: any other exception is raised again
RaiseAgain ==
    /\ cpc = "try"
    /\ \E e \in ErrorMessages :
          /\ ~IsRetryable(e)
          /\ error' = e
    /\ cpc' = "raised"
    /\ UNCHANGED backoff
    /\ UNCHANGED callOthers

CallNext == CreateReturns \/ RetryAfterSleep \/ RaiseAgain

CallSpec == CallInit /\ [][CallNext]_vars

\* the loop body always runs to its end: a request returns or raises, a sleep ends
CallLiveSpec == CallSpec /\ WF_vars(CallNext)

\* C18: the number of retries is bounded: whatever the failures, also when
\* every request fails with a transient error, call_openai eventually stops
\* retrying and returns control.
C18_EventuallyReturnsControl == <>(cpc \in {"returned", "raised"})

----------------------------------------------------------------------------
(* media_parse_factiva.py: main, the loop over the dump files *)

\* str.split(c)
SplitOn(s, c) ==
    LET idx  == [k \in 1..Len(s) |-> k]
        seps == <<0>> \o SelectSeq(idx, LAMBDA k : s[k] = c) \o <<Len(s) + 1>>
    IN [k \in 1..(Len(seps) - 1) |-> SubSeq(s, seps[k] + 1, seps[k + 1] - 1)]

\* Path(fname).stem: the name without its last suffix
Stem(fname) ==
    LET dots == { k \in 2..Len(fname) : fname[k] = "." }
    IN IF dots = {} THEN fname
       ELSE SubSeq(fname, 1, (CHOOSE k \in dots : \A h \in dots : h <= k) - 1)

\* the digits int() reads: blanks around, an optional sign
IntDigits(s) ==
    LET t == Strip(s)
    IN IF t # <<>> /\ t[1] \in {"+", "-"} THEN Tail(t) ELSE t

IntParses(s) == IntDigits(s) # <<>> /\ \A k \in 1..Len(IntDigits(s)) : IntDigits(s)[k] \in DigitChars

DigitSeq == <<"0","1","2","3","4","5","6","7","8","9">>

DigitValue(c) == (CHOOSE k \in 1..10 : DigitSeq[k] = c) - 1

RECURSIVE DigitsValue(_)
DigitsValue(ds) ==
    IF ds = <<>> THEN 0 ELSE 10 * DigitsValue(SubSeq(ds, 1, Len(ds) - 1)) + DigitValue(ds[Len(ds)])

\* int(s) where it parses
IntOf(s) ==
    IF Strip(s)[1] = "-" THEN 0 - DigitsValue(IntDigits(s)) ELSE DigitsValue(IntDigits(s))

FactivaPrefix == <<"f","a","c","t","i","v","a","_">>

\* lines 15-24: None, ValueError from int(), or (year, theme, outlet)
parse_fileinfo(fname) ==
    LET stem  == Stem(fname)
        parts == SplitOn(stem, "_")
    IN IF ~StartsWith(stem, FactivaPrefix) THEN [kind |-> "None"]
       ELSE IF ~IntParses(parts[Len(parts) - 1]) THEN [kind |-> "ValueError"]
       ELSE [kind |-> "info",
             year |-> IntOf(parts[Len(parts) - 1]),
             theme |-> Join(SubSeq(parts, 2, Len(parts) - 2), <<"_">>),
             outlet |-> Lower(parts[Len(parts)])]

\* lines 46-68 as one function of the text read
split_factiva_file(path_text) ==
    LET cleaned == clean_block(path_text)
        cs == HD_SPLIT_split(cleaned)
        kept == IF cs # <<>> /\ ~FirstLineIsHD(cs[1]) THEN Tail(cs) ELSE cs
    IN RealArticles(NonBlankCleaned(kept))

\* lines 87-95: the rows of one file
FileRows(f, info) ==
    LET bs == split_factiva_file(f.content)
    IN [k \in 1..Len(bs) |->
          [text |-> bs[k], year |-> info.year, theme |-> info.theme, outlet |-> info.outlet,
           article_number |-> k, source_file |-> f.name]]

\* --- inputs ---

MaxDumpFiles == 2

\* names that match factiva_*.txt, in sorted order
DumpNames ==
    << <<"f","a","c","t","i","v","a","_","2","0","1","6",".","t","x","t">>,
       <<"f","a","c","t","i","v","a","_","a","_","b","_","2","0","2","0","_","n","y","p",".","t","x","t">>,
       <<"f","a","c","t","i","v","a","_","e","c","o","n","_","2","0","1","6","_","N","Y","T",".","t","x","t">>,
       <<"f","a","c","t","i","v","a","_","e","c","o","n","_","x","1","6","_","w","s","j",".","t","x","t">> >>

\* a file that cannot be read: path.read_text raises OSError
Unreadable == <<"OSError">>

DumpContents ==
    { <<>>,
      Join(<<TagHD, TagPD, TagSN, TagLP>>, <<NL>>),
      Join(<<<<"p">>, TagHD, <<"x">>, TagHD, TagPD, TagSN, TagLP>>, <<NL>>),
      Unreadable }

\* sorted(RAW_DIR.glob("factiva_*.txt")) for the names at the indices S
DumpFilesAt(S, content) ==
    LET marked == [k \in 1..Len(DumpNames) |-> IF k \in S THEN <<k>> ELSE <<>>]
        picked == SelectSeq(marked, LAMBDA m : m # <<>>)
    IN [k \in 1..Len(picked) |-> [name |-> DumpNames[picked[k][1]], content |-> content[picked[k][1]]]]

DumpStart ==
    /\ dump_files \in { DumpFilesAt(S, c) :
                          S \in { X \in SUBSET (1..Len(DumpNames)) : Cardinality(X) <= MaxDumpFiles },
                          c \in [1..Len(DumpNames) -> DumpContents] }
    /\ di = 1 /\ rows = <<>> /\ counts = <<>> /\ out_csv = <<>> /\ dpc = "loop"

DumpInit == DumpStart /\ SegIdle /\ FactIdle /\ RoleIdle /\ NormIdle /\ MergeIdle /\ ProbeIdle /\ BatchIdle /\ ExtractIdle /\ CallIdle /\ HonIdle

\* lines 79-98: a file is processed (or skipped when parse_fileinfo returns None)
ProcessFile ==
    /\ dpc = "loop" /\ di <= Len(dump_files)
    /\ LET f == dump_files[di]
           info == parse_fileinfo(f.name)
       IN /\ info.kind # "ValueError"
          /\ info.kind = "info" => f.content # Unreadable
          /\ rows' = IF info.kind = "None" THEN rows ELSE rows \o FileRows(f, info)
          /\ counts' = IF info.kind = "None" THEN counts
                       ELSE Append(counts, [year |-> info.year, theme |-> info.theme,
                                            outlet |-> info.outlet,
                                            n |-> Len(split_factiva_file(f.content))])
    /\ di' = di + 1
    /\ UNCHANGED <<dump_files, out_csv, dpc>>
    /\ UNCHANGED dumpOthers

\* line 80: int() raises ValueError in parse_fileinfo; nothing in main catches it
FileNameRaises ==
    /\ dpc = "loop" /\ di <= Len(dump_files)
    /\ parse_fileinfo(dump_files[di].name).kind = "ValueError"
    /\ dpc' = "raised"
    /\ UNCHANGED <<dump_files, di, rows, counts, out_csv>>
    /\ UNCHANGED dumpOthers

\* line 87: read_text raises OSError; nothing in main catches it
ReadRaises ==
    /\ dpc = "loop" /\ di <= Len(dump_files)
    /\ parse_fileinfo(dump_files[di].name).kind = "info"
    /\ dump_files[di].content = Unreadable
    /\ dpc' = "raised"
    /\ UNCHANGED <<dump_files, di, rows, counts, out_csv>>
    /\ UNCHANGED dumpOthers

\* lines 100-102
SaveCsv ==
    /\ dpc = "loop" /\ di > Len(dump_files)
    /\ out_csv' = rows
    /\ dpc' = "saved"
    /\ UNCHANGED <<dump_files, di, rows, counts>>
    /\ UNCHANGED dumpOthers

DumpNext == ProcessFile \/ FileNameRaises \/ ReadRaises \/ SaveCsv

DumpSpec == DumpInit /\ [][DumpNext]_vars

\* a file whose name parses and whose text can be read
SoundFile(f) == parse_fileinfo(f.name).kind = "info" /\ f.content # Unreadable

RECURSIVE RowsOfSoundFiles(_)
RowsOfSoundFiles(fs) ==
    IF fs = <<>> THEN <<>>
    ELSE (IF SoundFile(fs[1]) THEN FileRows(fs[1], parse_fileinfo(fs[1].name)) ELSE <<>>)
         \o RowsOfSoundFiles(Tail(fs))

\* C14: a failure on one dump file does not abort the batch: the run ends with
\* the output saved, holding the articles of every file that did not fail.
C14_FailureIsolated ==
    /\ dpc # "raised"
    /\ dpc = "saved" => out_csv = RowsOfSoundFiles(dump_files)

----------------------------------------------------------------------------
(* claims about the ambiguity cache *)

\* C21: the cache is empty at the start of a run, and an entry once set is
\* never overwritten or removed by a later step, for its debate or another.
C21_CacheWrittenOnce ==
    /\ \A d \in DebateIds : ambiguous_resolution_cache[d] = NoEntry
    /\ [][\A d \in DebateIds :
             ambiguous_resolution_cache[d] # NoEntry =>
                 ambiguous_resolution_cache'[d] = ambiguous_resolution_cache[d]]_vars

\* both debates have a decision and a later label was answered from the cache
C21_Witness ==
    /\ \A d \in DebateIds : ambiguous_resolution_cache[d] # NoEntry
    /\ CallCompleted /\ last.rule = "cached"

\* C22: while match_role is asking, the call completes only with a valid
\* decision: an invalid answer leaves the call asking and the cache as it is,
\* a valid one returns one of the four roles and caches it for the debate;
\* when no answer can be read the call returns no role and caches nothing.
C22_CompletesOnlyWithValidDecision ==
    [][rpc = "prompt" =>
          \/ /\ rpc' = "prompt"
             /\ ambiguous_resolution_cache' = ambiguous_resolution_cache
             /\ normalized_roles' = normalized_roles
          \/ /\ rpc' = "rows"
             /\ last'.rule = "decided" /\ last'.name = last.name
             /\ last'.role \in CanonicalRoles
             /\ ambiguous_resolution_cache' =
                   [ambiguous_resolution_cache EXCEPT ![Files[fi]] = last'.role]
             /\ normalized_roles' = Append(normalized_roles, last'.role)
          \/ /\ rpc' = "files"
             /\ last'.rule = "raised"
             /\ ambiguous_resolution_cache' = ambiguous_resolution_cache
             /\ saved' = saved]_vars

\* a call that asked and completed with a decision for a candidate
C22_Witness ==
    /\ CallCompleted /\ last.rule = "decided"
    /\ last.role = "Candidate_D"
    /\ ambiguous_resolution_cache[Files[fi]] = "Candidate_D"

\* C27: the role returned for an ambiguous label is the decision of its own
\* debate id: the decision already cached for that debate when there is one,
\* else the decision just made and cached for it; the entries of the other
\* debates play no part.
C27_OwnDebateDecisionOnly ==
    [][(/\ normalized_roles' = Append(normalized_roles, last'.role)
        /\ last'.rule \in {"cached", "decided"})
          => /\ last'.role = ambiguous_resolution_cache'[Files[fi]]
             /\ ambiguous_resolution_cache[Files[fi]] # NoEntry
                   => last'.role = ambiguous_resolution_cache[Files[fi]]]_vars

\* two debates with different decisions, and a label of the second answered
\* from its own
C27_Witness ==
    /\ CallCompleted /\ last.rule = "cached"
    /\ \A d \in DebateIds : ambiguous_resolution_cache[d] # NoEntry
    /\ \E d \in DebateIds : ambiguous_resolution_cache[d] # ambiguous_resolution_cache[Files[fi]]
    /\ fi = Len(Files)

----------------------------------------------------------------------------
(* claims about the merge *)

\* a cell that holds a name
Declared(cell) == cell # NaN /\ cell # Missing /\ Strip(cell) # <<>>

\* the party of the first slot, in the order Republican, Democrat, Independent,
\* whose candidate is named and whose name contains the declared winner's name;
\* "" without a declared winner or without such a slot
DeclaredWinnerParty(meta_row) ==
    LET slots == { k \in 1..Len(WinnerSlots) :
                     /\ Declared(meta_row[WinnerSlots[k].role_key])
                     /\ Contains(Lower(Strip(meta_row[WinnerSlots[k].role_key])),
                                 Lower(Strip(meta_row.winner))) }
    IN IF ~Declared(meta_row.winner) \/ slots = {} THEN ""
       ELSE WinnerSlots[CHOOSE k \in slots : \A h \in slots : k <= h].party

\* C28: the winner party of an assembled debate is the party of the first
\* candidate slot (Republican, Democrat, Independent) whose name contains the
\* declared winner's name, and is empty when no winner is declared or no
\* candidate matches, also when a candidate slot is missing.
C28_WinnerPartyOfFirstMatchingSlot ==
    \A k \in 1..Len(all_rows) :
        all_rows[k].winner_party = DeclaredWinnerParty(MetaRowsOf(all_rows[k].debate_id)[1])

----------------------------------------------------------------------------
(* utterances.py: parse_honorific_format *)

\* text.replace('\r\n', '\n')
normalize(t) == Replace(t, <<CR, NL>>, <<NL>>)

\* the honorifics of SPEAKER_PATTERN, in the order of the alternation
Honorifics == <<<<"M","r",".">>, <<"M","s",".">>, <<"M","r","s",".">>, <<"T","h","e"," ","P","r","e","s","i","d","e","n","t">>,
                <<"S","e","n","a","t","o","r">>, <<"G","o","v","e","r","n","o","r">>, <<"M","o","d","e","r","a","t","o","r">>>>

\* [A-Z][a-z]+
IsCapWord(w) ==
    Len(w) >= 2 /\ w[1] \in UpperChars /\ \A k \in 2..Len(w) : w[k] \in LowerChars

\* [A-Z][a-z]+(?: [A-Z][a-z]+)*
IsCapWords(s) == s # <<>> /\ \A k \in 1..Len(SplitOn(s, " ")) : IsCapWord(SplitOn(s, " ")[k])

\* (honorific)? ?(name)\. on the whole of a line: the ways to read the line, an
\* honorific before none, a blank before none
SpeakerReadings(ln) ==
    LET body == SubSeq(ln, 1, Len(ln) - 1)
        hons == Honorifics \o <<<<>>>>
        blanks == <<<<" ">>, <<>>>>
    IN IF ln = <<>> \/ ln[Len(ln)] # "." THEN <<>>
       ELSE SelectSeq([k \in 1..(2 * Len(hons)) |->
                          LET h == hons[(k + 1) \div 2]
                              b == blanks[2 - (k % 2)]
                          IN [honorific |-> h, lead |-> h \o b,
                              name |-> IF StartsWith(body, h \o b)
                                       THEN SubSeq(body, Len(h \o b) + 1, Len(body))
                                       ELSE <<>>]],
                      LAMBDA r : StartsWith(body, r.lead) /\ IsCapWords(r.name))

\* the matches of SPEAKER_PATTERN in t, in the order of finditer: one for every
\* line that reads as a speaker and is closed by a newline; the match opens at
\* the newline before the line unless the match before it has taken that newline
SpeakerMatches(t) ==
    LET parts  == SplitOn(t, NL)
        \* where line k opens
        lineAt == [k \in 1..Len(parts) |->
                     1 + Len(Join(SubSeq(parts, 1, k - 1), <<NL>>)) + (IF k > 1 THEN 1 ELSE 0)]
        isM(k) == k < Len(parts) /\ SpeakerReadings(parts[k]) # <<>>
        idx    == SelectSeq([k \in 1..Len(parts) |-> k], isM)
    IN [j \in 1..Len(idx) |->
          LET k == idx[j]
              r == SpeakerReadings(parts[k])[1]
          IN [start |-> IF k > 1 /\ ~isM(k - 1) THEN lineAt[k] - 1 ELSE lineAt[k],
              end   |-> lineAt[k] + Len(parts[k]) + 1,
              group1 |-> r.honorific, group2 |-> r.name]]

\* the transcript the module is configured with
HonDebateId == "1984_1"

MaxHonLines == 4

\* the lines a transcript file is made of here: speaker lines with and without
\* an honorific, a sentence that reads as a speaker line, speech, a blank line,
\* a speaker line closed by "\r\n"
HonLineKinds == {<<"M","r","."," ","R","e","a","g","a","n",".">>, <<"M","o","d","e","r","a","t","o","r",".">>, <<"Y","e","s",".">>, <<"M","r",".","M","o","n","d","a","l","e",".">>,
                 <<"w","e"," ","c","a","n">>, <<>>, <<"S","m","i","t","h",".",CR>>}

HonFiles ==
    { Join(ls, <<NL>>) : ls \in UNION { [1..n -> HonLineKinds] : n \in 1..MaxHonLines } }

HonStart ==
    /\ hon_file \in HonFiles
    /\ hon_text = <<>> /\ hon_matches = <<>> /\ hon_i = 0
    /\ hon_utterances = <<>> /\ hon_csv = <<>> /\ hpc = "read"

HonInit == HonStart /\ SegIdle /\ FactIdle /\ RoleIdle /\ NormIdle /\ MergeIdle /\ ProbeIdle /\ BatchIdle /\ ExtractIdle /\ CallIdle /\ DumpIdle

\* text = normalize(f.read()); matches = list(SPEAKER_PATTERN.finditer(text))
HonRead ==
    /\ hpc = "read"
    /\ hon_text' = normalize(hon_file)
    /\ hon_matches' = SpeakerMatches(normalize(hon_file))
    /\ hon_i' = 0 /\ hpc' = "loop"
    /\ UNCHANGED <<hon_file, hon_utterances, hon_csv>>
    /\ UNCHANGED honOthers

\* f"{match.group(1) or ''} {match.group(2)}".strip()
HonSpeaker(m) == Strip(m.group1 \o <<" ">> \o m.group2)

\* text[start:end].strip().replace('\n', ' '), from the end of match i (counted
\* from 0) to the start of the next match, or to the end of the text
HonUtterance(t, ms, i) ==
    LET start == ms[i + 1].end
        end   == IF i + 1 < Len(ms) THEN ms[i + 2].start ELSE Len(t) + 1
    IN ReplaceNL(Strip(Sub(t, start, end)))

\* the id appended for match i: debate_id and i + 1
HonUtteranceId(debate_id, i) == <<debate_id, i + 1>>

\* one round of the loop over the matches with a non-empty utterance
HonAppend ==
    /\ hpc = "loop" /\ hon_i < Len(hon_matches)
    /\ HonUtterance(hon_text, hon_matches, hon_i) # <<>>
    /\ hon_utterances' = Append(hon_utterances,
           [utterance_id |-> HonUtteranceId(HonDebateId, hon_i),
            debate_id |-> HonDebateId,
            speaker |-> HonSpeaker(hon_matches[hon_i + 1]),
            text |-> HonUtterance(hon_text, hon_matches, hon_i)])
    /\ hon_i' = hon_i + 1
    /\ UNCHANGED <<hon_file, hon_text, hon_matches, hon_csv, hpc>>
    /\ UNCHANGED honOthers

\* one round of the loop over the matches with an empty utterance
HonSkip ==
    /\ hpc = "loop" /\ hon_i < Len(hon_matches)
    /\ HonUtterance(hon_text, hon_matches, hon_i) = <<>>
    /\ hon_i' = hon_i + 1
    /\ UNCHANGED <<hon_file, hon_text, hon_matches, hon_utterances, hon_csv, hpc>>
    /\ UNCHANGED honOthers

\* df = pd.DataFrame(utterances); df.to_csv(output_path, index=False)
HonSave ==
    /\ hpc = "loop" /\ hon_i = Len(hon_matches)
    /\ hon_csv' = hon_utterances
    /\ hpc' = "done"
    /\ UNCHANGED <<hon_file, hon_text, hon_matches, hon_i, hon_utterances>>
    /\ UNCHANGED honOthers

HonNext == HonRead \/ HonAppend \/ HonSkip \/ HonSave

HonSpec == HonInit /\ [][HonNext]_vars

\* C29: parse_honorific_format numbers the K utterances it emits 1..K without
\* gaps, also when a matched speaker line with an empty span is skipped.
C29_NumberedContiguously ==
    hpc = "done" =>
        \A k \in 1..Len(hon_csv) : hon_csv[k].utterance_id = <<HonDebateId, k>>

----------------------------------------------------------------------------
(* claims about the extracted body *)

\* the positions after the start of txt at which a tail phrase occurs
PhrasesAfterStart(txt) ==
    { i \in 2..Len(txt) : \E p \in TAIL_PHRASES : OccursAt(txt, p, i) }

\* C23: the body is cut at the first tail phrase that occurs after the start
\* of the span, so no tail phrase occurs in the extracted body after its start.
C23_NoTailPhraseAfterStart ==
    epc = "returned" => PhrasesAfterStart(article_body) = {}

\* the body before the runs of newlines are collapsed: the span cut at the tail
\* phrase, without tag, footer and index-code lines, blanks collapsed
UncollapsedBody(chunk) ==
    LET start_tag == BodyStartTag(has_tag_line(chunk, TagTD), has_tag_line(chunk, TagLP))
        txt   == Strip(Join(BlockLines(chunk, start_tag, TAIL_TAGS), <<NL>>))
        block == DropTagLines(CutAtTailPhrase(txt))
    IN IF start_tag = <<>> THEN <<>>
       ELSE CollapseBlanks(Strip(Join(SelectSeq(SplitLines(block), KeepBodyLine), <<NL>>)))

\* every run of three or more blank lines (four or more newlines) made one
\* blank line, shorter runs left as they are
RECURSIVE CollapseBlankLineRunsFrom(_, _)
CollapseBlankLineRunsFrom(s, i) ==
    IF i > Len(s) THEN <<>>
    ELSE IF s[i] = NL
         THEN LET e == NewlineRunEnd(s, i)
              IN (IF e - i >= 4 THEN <<NL, NL>> ELSE Sub(s, i, e)) \o CollapseBlankLineRunsFrom(s, e)
         ELSE <<s[i]>> \o CollapseBlankLineRunsFrom(s, i + 1)

\* C24: in the extracted body every run of three or more blank lines is one
\* blank line, shorter runs are left as they are, and the body has no leading
\* or trailing whitespace.
C24_BlankRunsOfThreeCollapsed ==
    epc = "returned" =>
        /\ article_body = Strip(CollapseBlankLineRunsFrom(UncollapsedBody(article_chunk), 1))
        /\ article_body = Strip(article_body)

----------------------------------------------------------------------------
(* claims about the short-body filter *)

\* the words of row i of the input once its body is cleaned
CleanedWords(i) == word_count(clean_body(input_csv[i]))

\* row i of the input is among the records retained
Retained(i) == \E k \in 1..Len(articles) : articles[k].row = i

\* C25: a record is retained only if its body has at least MIN_WORDS words
\* after cleaning, whatever it had before; a record with exactly MIN_WORDS
\* words is kept (unless an earlier record has its fingerprint).
C25_KeptIffCleanedWordsAtLeastMin ==
    npc \in {"filtered", "saved"} =>
        \A i \in 1..Len(input_csv) :
            /\ Retained(i) => CleanedWords(i) >= MIN_WORDS
            /\ (/\ CleanedWords(i) >= MIN_WORDS
                /\ \A j \in 1..(i - 1) : FingerprintOfInput(j) # FingerprintOfInput(i))
                  => Retained(i)

\* a saved first run that dropped a record of MIN_WORDS words before cleaning
\* and fewer after, and kept one of exactly MIN_WORDS words after cleaning and
\* more before
C25_Witness ==
    /\ npc = "saved" /\ npass = 1
    /\ \E i, j \in 1..Len(input_csv) :
          /\ word_count(input_csv[i].body) >= MIN_WORDS /\ CleanedWords(i) < MIN_WORDS
          /\ ~Retained(i)
          /\ word_count(input_csv[j].body) > MIN_WORDS /\ CleanedWords(j) = MIN_WORDS
          /\ Retained(j)

\* the rows retained when the short bodies are dropped first and the
\* duplicates of earlier retained records after that
ShortThenDuplicates ==
    LET input == [i \in 1..Len(input_csv) |-> i]
        long == SelectSeq(input, LAMBDA i : CleanedWords(i) >= MIN_WORDS)
    IN SelectSeq(long, LAMBDA i :
           \A j \in 1..(i - 1) :
               CleanedWords(j) >= MIN_WORDS => FingerprintOfInput(j) # FingerprintOfInput(i))

====
